---- MODULE Spec2Model ----
(***************************************************************************)
(* YACReader::ConcurrentQueue (concurrent_queue.h): a fixed pool of worker *)
(* threads running nextJob(), a FIFO _queue of jobs guarded by queueMutex, *)
(* the live-job counter jobsLeft guarded by jobsLeftMutex, and the two     *)
(* condition variables jobAvailableVar and _waitVar.                       *)
(*                                                                         *)
(* Every thread is a process with a program counter pc[t].  A critical     *)
(* section is two steps: the acquisition of the mutex, and the guarded     *)
(* statements together with the release.  condition_variable::wait(lock,   *)
(* pred) is the loop "while (!pred()) wait(lock)": a thread that finds the *)
(* predicate false releases the mutex and joins the set of threads         *)
(* suspended on the condition variable in one step; it leaves the set when *)
(* it is notified or wakes spuriously, and then re-acquires the mutex.     *)
(***************************************************************************)
EXTENDS Integers, Sequences, FiniteSets

\* ---------------------------------------------------------------- bounds
MaxJobs == 2         \* enqueue calls in one run

\* ---------------------------------------------------------------- threads
Workers == {1, 2}    \* the pool: the constructor starts a prefix of these
Clients == {3, 4, 5} \* the threads that call the public operations
Callers == {3, 4}    \* the clients that may call every operation
Observers == {4, 5}  \* the clients that only call waitAll in SpecWaiters
Threads == Workers \cup Clients
Jobs    == 1..MaxJobs
NoThread == 0
NoJob    == 0

VARIABLES
    threads,          \* std::vector<std::thread> threads, as worker ids
    joinable,         \* the threads x with x.joinable()
    _queue,           \* std::queue of jobs
    jobsLeft,         \* std::size_t jobsLeft
    bailout,          \* bool bailout
    jobAvailableVar,  \* threads suspended on jobAvailableVar
    _waitVar,         \* threads suspended on _waitVar
    jobsLeftMutex,    \* owner of jobsLeftMutex, or NoThread
    queueMutex,       \* owner of queueMutex, or NoThread
    pc,               \* position of every thread
    job,              \* enqueue's parameter job / nextJob's local job
    oldQueue,         \* cancelPending's local oldQueue
    remainingJobs,    \* finalizeJobs' local remainingJobs
    joinIdx,          \* position of joinAll's loop over threads
    assertFailed,     \* an assert() of finalizeJobs has failed
    emptyJobs,        \* the jobs that are an empty std::function
    aborted,          \* an exception left nextJob: std::terminate
    \* history of the run, read by the properties only
    numEnq,           \* enqueue calls so far; the next job is numEnq + 1
    deqCount,         \* per job: times a worker popped it
    execCount,        \* per job: times job() ran to completion
    cancelCount,      \* per job: times a cancelPending swapped it out
    retSum,           \* sum of the values returned by cancelPending
    waSnap,           \* per waitAll call: jobs whose enqueue had returned
    waBlocked,        \* per waitAll call: it suspended on _waitVar
    crossed,          \* per waitAll call: the thread whose decrement made
                      \* jobsLeft zero while the call was blocked, until
                      \* the call re-checks jobsLeft and suspends again
    heldAtSwap,       \* per cancelPending call: the jobs that workers had
                      \* popped and not yet finalized at the swap
    producer          \* per job: the thread that called enqueue with it,
                      \* where the call is EnqueueCallBy

shared == <<threads, joinable, _queue, jobsLeft, bailout, jobAvailableVar,
            _waitVar, jobsLeftMutex, queueMutex>>
locals == <<pc, job, oldQueue, remainingJobs, joinIdx, assertFailed>>
faults == <<emptyJobs, aborted>>
hist   == <<numEnq, deqCount, execCount, cancelCount, retSum, waSnap,
            waBlocked, crossed, heldAtSwap>>
vars   == <<shared, locals, faults, hist, producer>>

\* ------------------------------------------------------------ constructor
\* ConcurrentQueue(threadCount): jobsLeft(0), bailout(false), and
\* threadCount threads started on nextJob.
Init ==
    \E threadCount \in 0..Cardinality(Workers) :
        /\ threads = [i \in 1..threadCount |-> i]
        /\ joinable = 1..threadCount
        /\ pc = [t \in Threads |->
                    IF t \in 1..threadCount THEN "nj_lock"
                    ELSE IF t \in Workers THEN "unused" ELSE "idle"]
        /\ _queue = <<>>
        /\ jobsLeft = 0
        /\ bailout = FALSE
        /\ jobAvailableVar = {}
        /\ _waitVar = {}
        /\ jobsLeftMutex = NoThread
        /\ queueMutex = NoThread
        /\ job = [t \in Threads |-> NoJob]
        /\ oldQueue = [t \in Clients |-> <<>>]
        /\ remainingJobs = [t \in Threads |-> 0]
        /\ joinIdx = [t \in Clients |-> 0]
        /\ assertFailed = FALSE
        /\ emptyJobs = {}
        /\ aborted = FALSE
        /\ numEnq = 0
        /\ deqCount = [j \in Jobs |-> 0]
        /\ execCount = [j \in Jobs |-> 0]
        /\ cancelCount = [j \in Jobs |-> 0]
        /\ retSum = 0
        /\ waSnap = [t \in Clients |-> {}]
        /\ waBlocked = [t \in Clients |-> FALSE]
        /\ crossed = [t \in Clients |-> NoThread]
        /\ heldAtSwap = [t \in Clients |-> {}]
        /\ producer = [j \in Jobs |-> NoThread]

\* ---------------------------------------------------------------- helpers
At(t, loc) == ~assertFailed /\ ~aborted /\ pc[t] = loc
Goto(t, loc) == pc' = [pc EXCEPT ![t] = loc]

Range(s) == {s[i] : i \in 1..Len(s)}

\* The jobs whose enqueue call has returned.
Returned == {j \in 1..numEnq : \A c \in Clients : job[c] # j}

\* -------------------------------------------------------------- enqueue
EnqueueCall(c) ==
    /\ At(c, "idle")
    /\ UNCHANGED <<emptyJobs, aborted, producer>>
    /\ numEnq < MaxJobs
    /\ numEnq' = numEnq + 1
    /\ job' = [job EXCEPT ![c] = numEnq + 1]
    /\ Goto(c, "enq_lockJobsLeft")
    /\ UNCHANGED <<shared, oldQueue, remainingJobs, joinIdx, assertFailed>>
    /\ UNCHANGED <<deqCount, execCount, cancelCount, retSum, waSnap, waBlocked, crossed, heldAtSwap>>

\* enqueue called with an empty std::function: the body of enqueue does
\* not test its argument, the call proceeds like any other.
EnqueueEmptyCall(c) ==
    /\ At(c, "idle")
    /\ numEnq < MaxJobs
    /\ numEnq' = numEnq + 1
    /\ job' = [job EXCEPT ![c] = numEnq + 1]
    /\ emptyJobs' = emptyJobs \cup {numEnq + 1}
    /\ UNCHANGED producer
    /\ Goto(c, "enq_lockJobsLeft")
    /\ UNCHANGED <<shared, oldQueue, remainingJobs, joinIdx, assertFailed,
                   aborted>>
    /\ UNCHANGED <<deqCount, execCount, cancelCount, retSum, waSnap,
                   waBlocked, crossed, heldAtSwap>>

\* The call of enqueue, with the calling thread kept in the history.
EnqueueCallBy(c) ==
    /\ At(c, "idle")
    /\ numEnq < MaxJobs
    /\ numEnq' = numEnq + 1
    /\ job' = [job EXCEPT ![c] = numEnq + 1]
    /\ producer' = [producer EXCEPT ![numEnq + 1] = c]
    /\ Goto(c, "enq_lockJobsLeft")
    /\ UNCHANGED <<shared, oldQueue, remainingJobs, joinIdx, assertFailed,
                   faults>>
    /\ UNCHANGED <<deqCount, execCount, cancelCount, retSum, waSnap,
                   waBlocked, crossed, heldAtSwap>>

EnqLockJobsLeft(c) ==
    /\ At(c, "enq_lockJobsLeft")
    /\ UNCHANGED <<emptyJobs, aborted, producer>>
    /\ jobsLeftMutex = NoThread
    /\ jobsLeftMutex' = c
    /\ Goto(c, "enq_increment")
    /\ UNCHANGED <<threads, joinable, _queue, jobsLeft, bailout,
                   jobAvailableVar, _waitVar, queueMutex>>
    /\ UNCHANGED <<job, oldQueue, remainingJobs, joinIdx, assertFailed, hist>>

EnqIncrement(c) ==
    /\ At(c, "enq_increment")
    /\ UNCHANGED <<emptyJobs, aborted, producer>>
    /\ jobsLeft' = jobsLeft + 1
    /\ jobsLeftMutex' = NoThread
    /\ Goto(c, "enq_lockQueue")
    /\ UNCHANGED <<threads, joinable, _queue, bailout, jobAvailableVar,
                   _waitVar, queueMutex>>
    /\ UNCHANGED <<job, oldQueue, remainingJobs, joinIdx, assertFailed, hist>>

EnqLockQueue(c) ==
    /\ At(c, "enq_lockQueue")
    /\ UNCHANGED <<emptyJobs, aborted, producer>>
    /\ queueMutex = NoThread
    /\ queueMutex' = c
    /\ Goto(c, "enq_emplace")
    /\ UNCHANGED <<threads, joinable, _queue, jobsLeft, bailout,
                   jobAvailableVar, _waitVar, jobsLeftMutex>>
    /\ UNCHANGED <<job, oldQueue, remainingJobs, joinIdx, assertFailed, hist>>

\* Mutant of Emplace: the job is inserted at the front.
EmplaceFront(q, j) == <<j>> \o q

\* _queue.emplace(std::move(job)): std::queue inserts at the back.
Emplace(q, j) == Append(q, j)

EnqEmplace(c) ==
    /\ At(c, "enq_emplace")
    /\ UNCHANGED <<emptyJobs, aborted, producer>>
    /\ _queue' = Emplace(_queue, job[c])
    /\ queueMutex' = NoThread
    /\ Goto(c, "enq_notify")
    /\ UNCHANGED <<threads, joinable, jobsLeft, bailout, jobAvailableVar,
                   _waitVar, jobsLeftMutex>>
    /\ UNCHANGED <<job, oldQueue, remainingJobs, joinIdx, assertFailed, hist>>

\* Mutant of NotifyOne: the notification is forgotten.
NotifyNone(cv) == {cv}

\* notify_one: one suspended thread, if there is any, is woken.
NotifyOne(cv) == IF cv = {} THEN {cv} ELSE {cv \ {t} : t \in cv}

EnqNotify(c) ==
    /\ At(c, "enq_notify")
    /\ UNCHANGED <<emptyJobs, aborted, producer>>
    /\ jobAvailableVar' \in NotifyOne(jobAvailableVar)
    /\ job' = [job EXCEPT ![c] = NoJob]
    /\ Goto(c, "idle")
    /\ UNCHANGED <<threads, joinable, _queue, jobsLeft, bailout, _waitVar,
                   jobsLeftMutex, queueMutex>>
    /\ UNCHANGED <<oldQueue, remainingJobs, joinIdx, assertFailed, hist>>

\* ------------------------------------------------------------- nextJob
\* Mutant of JobAvailable: the predicate forgets the shutdown flag.
JobAvailableNoBailout == Len(_queue) > 0

\* The predicate of jobAvailableVar.wait.
JobAvailable == Len(_queue) > 0 \/ bailout

\* Mutant of BailoutSeen: a worker drains _queue before it returns.
BailoutSeenWhenDrained == bailout /\ _queue = <<>>

\* if (bailout) return; tested before the queue is, under queueMutex.
BailoutSeen == bailout

\* Mutant of OwnerAfterPop: the lock is still held while job() runs.
OwnerAfterPopWorker(w) == w

\* The owner of queueMutex once the block of the unique_lock has ended,
\* which is before job() is called.
OwnerAfterPop(w) == NoThread

\* Mutant of PopFront: the front job is read but not popped.
PopFrontKept(q) == q

\* job = std::move(_queue.front()); _queue.pop();
PopFront(q) == Tail(q)

NjLock(w) ==
    /\ At(w, "nj_lock")
    /\ UNCHANGED <<emptyJobs, aborted, producer>>
    /\ queueMutex = NoThread
    /\ queueMutex' = w
    /\ Goto(w, "nj_check")
    /\ UNCHANGED <<threads, joinable, _queue, jobsLeft, bailout,
                   jobAvailableVar, _waitVar, jobsLeftMutex>>
    /\ UNCHANGED <<job, oldQueue, remainingJobs, joinIdx, assertFailed, hist>>

\* What a worker that holds queueMutex does with it: return on bailout,
\* suspend while the predicate is false, else pop the front job.
NjTake(w) ==
    IF BailoutSeen
    THEN /\ Goto(w, "nj_done")
         /\ queueMutex' = NoThread
         /\ UNCHANGED <<_queue, jobAvailableVar, job, deqCount>>
    ELSE /\ _queue' = PopFront(_queue)
         /\ queueMutex' = OwnerAfterPop(w)
         /\ job' = [job EXCEPT ![w] = Head(_queue)]
         /\ deqCount' = [deqCount EXCEPT ![Head(_queue)] = @ + 1]
         /\ Goto(w, "nj_job")
         /\ UNCHANGED jobAvailableVar

NjSuspend(w) ==
    /\ jobAvailableVar' = jobAvailableVar \cup {w}
    /\ queueMutex' = NoThread
    /\ Goto(w, "nj_wait")
    /\ UNCHANGED <<_queue, job, deqCount>>

\* First pass after the lock: if (bailout) return; then the wait.
NjCheck(w) ==
    /\ At(w, "nj_check")
    /\ UNCHANGED <<emptyJobs, aborted, producer>>
    /\ IF bailout \/ JobAvailable THEN NjTake(w) ELSE NjSuspend(w)
    /\ UNCHANGED <<threads, joinable, jobsLeft, bailout, _waitVar,
                   jobsLeftMutex>>
    /\ UNCHANGED <<oldQueue, remainingJobs, joinIdx, assertFailed>>
    /\ UNCHANGED <<numEnq, execCount, cancelCount, retSum, waSnap, waBlocked, crossed, heldAtSwap>>

\* A woken worker re-acquires queueMutex inside wait().
NjWake(w) ==
    /\ At(w, "nj_wait")
    /\ UNCHANGED <<emptyJobs, aborted, producer>>
    /\ w \notin jobAvailableVar
    /\ queueMutex = NoThread
    /\ queueMutex' = w
    /\ Goto(w, "nj_recheck")
    /\ UNCHANGED <<threads, joinable, _queue, jobsLeft, bailout,
                   jobAvailableVar, _waitVar, jobsLeftMutex>>
    /\ UNCHANGED <<job, oldQueue, remainingJobs, joinIdx, assertFailed, hist>>

\* The predicate is evaluated again after every wakeup.
NjRecheck(w) ==
    /\ At(w, "nj_recheck")
    /\ UNCHANGED <<emptyJobs, aborted, producer>>
    /\ IF JobAvailable THEN NjTake(w) ELSE NjSuspend(w)
    /\ UNCHANGED <<threads, joinable, jobsLeft, bailout, _waitVar,
                   jobsLeftMutex>>
    /\ UNCHANGED <<oldQueue, remainingJobs, joinIdx, assertFailed>>
    /\ UNCHANGED <<numEnq, execCount, cancelCount, retSum, waSnap, waBlocked, crossed, heldAtSwap>>

\* A thread suspended on a condition variable may wake without a notify.
NjSpurious(w) ==
    /\ At(w, "nj_wait")
    /\ UNCHANGED <<emptyJobs, aborted, producer>>
    /\ w \in jobAvailableVar
    /\ jobAvailableVar' = jobAvailableVar \ {w}
    /\ UNCHANGED <<threads, joinable, _queue, jobsLeft, bailout, _waitVar,
                   jobsLeftMutex, queueMutex>>
    /\ UNCHANGED <<locals, hist>>

\* job(); runs outside every lock.  Calling an empty std::function throws
\* std::bad_function_call, which nothing in nextJob catches: the exception
\* leaves the thread function and std::terminate ends the program.
NjJob(w) ==
    /\ At(w, "nj_job")
    /\ UNCHANGED <<emptyJobs, producer>>
    /\ IF job[w] \in emptyJobs
       THEN /\ aborted' = TRUE
            /\ UNCHANGED <<execCount, pc>>
       ELSE /\ execCount' = [execCount EXCEPT ![job[w]] = @ + 1]
            /\ Goto(w, "fin_lock")
            /\ UNCHANGED aborted
    /\ UNCHANGED <<shared, job, oldQueue, remainingJobs, joinIdx, assertFailed>>
    /\ UNCHANGED <<numEnq, deqCount, cancelCount, retSum, waSnap, waBlocked, crossed, heldAtSwap>>

\* --------------------------------------------------------- finalizeJobs
\* Mutant of FinCount: cancelPending clears the whole counter.
FinCountAllLive(t) == IF t \in Workers THEN 1 ELSE jobsLeft

\* The argument of the call: 1 from nextJob, oldQueue.size() from
\* cancelPending.
FinCount(t) == IF t \in Workers THEN 1 ELSE Len(oldQueue[t])

FinLock(t) ==
    /\ At(t, "fin_lock")
    /\ UNCHANGED <<emptyJobs, aborted, producer>>
    /\ jobsLeftMutex = NoThread
    /\ jobsLeftMutex' = t
    /\ Goto(t, "fin_decrement")
    /\ UNCHANGED <<threads, joinable, _queue, jobsLeft, bailout,
                   jobAvailableVar, _waitVar, queueMutex>>
    /\ UNCHANGED <<job, oldQueue, remainingJobs, joinIdx, assertFailed, hist>>

\* assert(count > 0); assert(jobsLeft >= count); jobsLeft -= count;
\* remainingJobs = jobsLeft;
FinDecrement(t) ==
    /\ At(t, "fin_decrement")
    /\ UNCHANGED <<emptyJobs, aborted, producer>>
    /\ IF FinCount(t) > 0 /\ jobsLeft >= FinCount(t)
       THEN /\ jobsLeft' = jobsLeft - FinCount(t)
            /\ remainingJobs' = [remainingJobs EXCEPT ![t] = jobsLeft']
            /\ jobsLeftMutex' = NoThread
            /\ Goto(t, "fin_notify")
            /\ crossed' = [c \in Clients |->
                    IF jobsLeft' = 0 /\ pc[c] = "wa_wait"
                    THEN t ELSE crossed[c]]
            /\ UNCHANGED assertFailed
       ELSE /\ assertFailed' = TRUE
            /\ UNCHANGED <<jobsLeft, remainingJobs, jobsLeftMutex, pc,
                           crossed>>
    /\ UNCHANGED <<threads, joinable, _queue, bailout, jobAvailableVar,
                   _waitVar, queueMutex>>
    /\ UNCHANGED <<job, oldQueue, joinIdx>>
    /\ UNCHANGED <<numEnq, deqCount, execCount, cancelCount, retSum, waSnap,
                   waBlocked, heldAtSwap>>

\* Mutant of NotifyAll: notify_one in its place, one waiter is woken.
NotifyAllAsOne(cv) == IF cv = {} THEN {} ELSE cv \ {CHOOSE t \in cv : TRUE}

\* notify_all: every suspended thread is woken.
NotifyAll(cv) == {}

\* Mutant of MustNotify: the notification is forgotten.
MustNotifyNever(remaining) == FALSE

\* Mutant of MustNotify: every call notifies.
MustNotifyAlways(remaining) == TRUE

\* if (remainingJobs == 0)
MustNotify(remaining) == remaining = 0

\* if (remainingJobs == 0) _waitVar.notify_all(); then back to the caller.
FinNotify(t) ==
    /\ At(t, "fin_notify")
    /\ UNCHANGED <<emptyJobs, aborted, producer>>
    /\ _waitVar' = IF MustNotify(remainingJobs[t]) THEN NotifyAll(_waitVar)
                                                  ELSE _waitVar
    /\ remainingJobs' = [remainingJobs EXCEPT ![t] = 0]
    /\ IF t \in Workers
       THEN /\ Goto(t, "nj_lock")
            /\ job' = [job EXCEPT ![t] = NoJob]
       ELSE /\ Goto(t, "cp_return")
            /\ UNCHANGED job
    /\ UNCHANGED <<threads, joinable, _queue, jobsLeft, bailout,
                   jobAvailableVar, jobsLeftMutex, queueMutex>>
    /\ UNCHANGED <<oldQueue, joinIdx, assertFailed, hist>>

\* -------------------------------------------------------- cancelPending
CancelCall(c) ==
    /\ At(c, "idle")
    /\ UNCHANGED <<emptyJobs, aborted, producer>>
    /\ Goto(c, "cp_lock")
    /\ UNCHANGED <<shared, job, oldQueue, remainingJobs, joinIdx,
                   assertFailed, hist>>

CpLock(c) ==
    /\ At(c, "cp_lock")
    /\ UNCHANGED <<emptyJobs, aborted, producer>>
    /\ queueMutex = NoThread
    /\ queueMutex' = c
    /\ Goto(c, "cp_swap")
    /\ UNCHANGED <<threads, joinable, _queue, jobsLeft, bailout,
                   jobAvailableVar, _waitVar, jobsLeftMutex>>
    /\ UNCHANGED <<job, oldQueue, remainingJobs, joinIdx, assertFailed, hist>>

\* Mutant of Swap: oldQueue is assigned a copy and _queue is left as it is.
SwapCopies(q, old) == <<q, q>>

\* _queue.swap(oldQueue): <<the new _queue, the new oldQueue>>.
Swap(q, old) == <<old, q>>

CpSwap(c) ==
    /\ At(c, "cp_swap")
    /\ UNCHANGED <<emptyJobs, aborted, producer>>
    /\ _queue' = Swap(_queue, oldQueue[c])[1]
    /\ oldQueue' = [oldQueue EXCEPT ![c] = Swap(_queue, oldQueue[c])[2]]
    /\ cancelCount' = [j \in Jobs |->
            cancelCount[j]
            + Cardinality({i \in 1..Len(oldQueue'[c]) : oldQueue'[c][i] = j})]
    /\ queueMutex' = NoThread
    /\ Goto(c, "cp_size")
    /\ UNCHANGED <<threads, joinable, jobsLeft, bailout, jobAvailableVar,
                   _waitVar, jobsLeftMutex>>
    /\ heldAtSwap' = [heldAtSwap EXCEPT
                            ![c] = {job[w] : w \in Workers} \ {NoJob}]
    /\ UNCHANGED <<job, remainingJobs, joinIdx, assertFailed>>
    /\ UNCHANGED <<numEnq, deqCount, execCount, retSum, waSnap, waBlocked,
                   crossed>>

\* Mutant of CallsFinalize: finalizeJobs is called whatever the size.
CallsFinalizeAlways(size) == TRUE

\* if (size != 0) finalizeJobs(size);
CallsFinalize(size) == size # 0

CpSize(c) ==
    /\ At(c, "cp_size")
    /\ UNCHANGED <<emptyJobs, aborted, producer>>
    /\ IF CallsFinalize(Len(oldQueue[c]))
       THEN Goto(c, "fin_lock")
       ELSE Goto(c, "cp_return")
    /\ UNCHANGED <<shared, job, oldQueue, remainingJobs, joinIdx,
                   assertFailed, hist>>

\* return size; oldQueue is destroyed.
CpReturn(c) ==
    /\ At(c, "cp_return")
    /\ UNCHANGED <<emptyJobs, aborted, producer>>
    /\ retSum' = retSum + Len(oldQueue[c])
    /\ oldQueue' = [oldQueue EXCEPT ![c] = <<>>]
    /\ heldAtSwap' = [heldAtSwap EXCEPT ![c] = {}]
    /\ Goto(c, "idle")
    /\ UNCHANGED <<shared, job, remainingJobs, joinIdx, assertFailed>>
    /\ UNCHANGED <<numEnq, deqCount, execCount, cancelCount, waSnap, waBlocked,
                   crossed>>

\* -------------------------------------------------------------- waitAll
WaitAllCall(c) ==
    /\ At(c, "idle")
    /\ UNCHANGED <<emptyJobs, aborted, producer>>
    /\ waSnap' = [waSnap EXCEPT ![c] = Returned]
    /\ Goto(c, "wa_lock")
    /\ UNCHANGED <<shared, job, oldQueue, remainingJobs, joinIdx, assertFailed>>
    /\ UNCHANGED <<numEnq, deqCount, execCount, cancelCount, retSum,
                   waBlocked, crossed, heldAtSwap>>

WaLock(c) ==
    /\ At(c, "wa_lock")
    /\ UNCHANGED <<emptyJobs, aborted, producer>>
    /\ jobsLeftMutex = NoThread
    /\ jobsLeftMutex' = c
    /\ Goto(c, "wa_check")
    /\ UNCHANGED <<threads, joinable, _queue, jobsLeft, bailout,
                   jobAvailableVar, _waitVar, queueMutex>>
    /\ UNCHANGED <<job, oldQueue, remainingJobs, joinIdx, assertFailed, hist>>

\* Mutant of AllDone: wait(lock) without a predicate, any wakeup returns.
AllDoneAnyWakeup == TRUE

\* The predicate of _waitVar.wait.
AllDone == jobsLeft = 0

\* Mutant of WaFirstSuspends: waitAll returns without looking at jobsLeft.
WaFirstSuspendsNever == FALSE

\* Mutant of WaFirstSuspends: an unconditional _waitVar.wait(lock).
WaFirstSuspendsAlways == TRUE

\* if (jobsLeft > 0) _waitVar.wait(lock, pred): the first pass suspends
\* when the guard holds and the predicate does not.
WaFirstSuspends == jobsLeft > 0 /\ ~AllDone

WaSuspend(c) ==
    /\ _waitVar' = _waitVar \cup {c}
    /\ waBlocked' = [waBlocked EXCEPT ![c] = TRUE]
    /\ crossed' = [crossed EXCEPT ![c] = NoThread]
    /\ Goto(c, "wa_wait")

WaLeave(c) ==
    /\ Goto(c, "wa_return")
    /\ UNCHANGED <<_waitVar, waBlocked, crossed>>

WaCheck(c) ==
    /\ At(c, "wa_check")
    /\ UNCHANGED <<emptyJobs, aborted, producer>>
    /\ IF WaFirstSuspends THEN WaSuspend(c) ELSE WaLeave(c)
    /\ jobsLeftMutex' = NoThread
    /\ UNCHANGED <<threads, joinable, _queue, jobsLeft, bailout,
                   jobAvailableVar, queueMutex>>
    /\ UNCHANGED <<job, oldQueue, remainingJobs, joinIdx, assertFailed>>
    /\ UNCHANGED <<numEnq, deqCount, execCount, cancelCount, retSum, waSnap,
                   heldAtSwap>>

WaWake(c) ==
    /\ At(c, "wa_wait")
    /\ UNCHANGED <<emptyJobs, aborted, producer>>
    /\ c \notin _waitVar
    /\ jobsLeftMutex = NoThread
    /\ jobsLeftMutex' = c
    /\ Goto(c, "wa_recheck")
    /\ UNCHANGED <<threads, joinable, _queue, jobsLeft, bailout,
                   jobAvailableVar, _waitVar, queueMutex>>
    /\ UNCHANGED <<job, oldQueue, remainingJobs, joinIdx, assertFailed, hist>>

WaRecheck(c) ==
    /\ At(c, "wa_recheck")
    /\ UNCHANGED <<emptyJobs, aborted, producer>>
    /\ IF AllDone THEN WaLeave(c) ELSE WaSuspend(c)
    /\ jobsLeftMutex' = NoThread
    /\ UNCHANGED <<threads, joinable, _queue, jobsLeft, bailout,
                   jobAvailableVar, queueMutex>>
    /\ UNCHANGED <<job, oldQueue, remainingJobs, joinIdx, assertFailed>>
    /\ UNCHANGED <<numEnq, deqCount, execCount, cancelCount, retSum, waSnap,
                   heldAtSwap>>

WaSpurious(c) ==
    /\ At(c, "wa_wait")
    /\ UNCHANGED <<emptyJobs, aborted, producer>>
    /\ c \in _waitVar
    /\ _waitVar' = _waitVar \ {c}
    /\ UNCHANGED <<threads, joinable, _queue, jobsLeft, bailout,
                   jobAvailableVar, jobsLeftMutex, queueMutex>>
    /\ UNCHANGED <<locals, hist>>

\* Mutant of WaitAllNotifies: waitAll ends with
\* jobAvailableVar.notify_all().
WaitAllNotifiesWorkers == TRUE

\* waitAll ends at line 72 with the release of jobsLeftMutex: it issues no
\* notification.
WaitAllNotifies == FALSE

WaReturn(c) ==
    /\ At(c, "wa_return")
    /\ UNCHANGED <<emptyJobs, aborted, producer>>
    /\ waSnap' = [waSnap EXCEPT ![c] = {}]
    /\ waBlocked' = [waBlocked EXCEPT ![c] = FALSE]
    /\ crossed' = [crossed EXCEPT ![c] = NoThread]
    /\ Goto(c, "idle")
    /\ jobAvailableVar' = IF WaitAllNotifies THEN NotifyAll(jobAvailableVar)
                                              ELSE jobAvailableVar
    /\ UNCHANGED <<threads, joinable, _queue, jobsLeft, bailout, _waitVar,
                   jobsLeftMutex, queueMutex>>
    /\ UNCHANGED <<job, oldQueue, remainingJobs, joinIdx, assertFailed>>
    /\ UNCHANGED <<numEnq, deqCount, execCount, cancelCount, retSum,
                   heldAtSwap>>

\* -------------------------------------------------------------- joinAll
JoinAllCall(c) ==
    /\ At(c, "idle")
    /\ UNCHANGED <<emptyJobs, aborted, producer>>
    /\ Goto(c, "ja_lock")
    /\ UNCHANGED <<shared, job, oldQueue, remainingJobs, joinIdx,
                   assertFailed, hist>>

\* Mutant of JoinAllLockOwner: joinAll goes on without queueMutex.
JoinAllLockOwnerNobody(c) == NoThread

\* std::lock_guard<std::mutex> lock(queueMutex); in joinAll.
JoinAllLockOwner(c) == c

JaLock(c) ==
    /\ At(c, "ja_lock")
    /\ UNCHANGED <<emptyJobs, aborted, producer>>
    /\ queueMutex = NoThread
    /\ queueMutex' = JoinAllLockOwner(c)
    /\ Goto(c, "ja_check")
    /\ UNCHANGED <<threads, joinable, _queue, jobsLeft, bailout,
                   jobAvailableVar, _waitVar, jobsLeftMutex>>
    /\ UNCHANGED <<job, oldQueue, remainingJobs, joinIdx, assertFailed, hist>>

\* Mutant of AlreadyShutDown: joinAll does not test the flag.
AlreadyShutDownIgnored == FALSE

\* if (bailout) return;
AlreadyShutDown == bailout

\* if (bailout) return; bailout = true;
JaCheck(c) ==
    /\ At(c, "ja_check")
    /\ UNCHANGED <<emptyJobs, aborted, producer>>
    /\ IF AlreadyShutDown THEN Goto(c, "idle") ELSE Goto(c, "ja_notify")
    /\ bailout' = TRUE
    /\ queueMutex' = NoThread
    /\ UNCHANGED <<threads, joinable, _queue, jobsLeft, jobAvailableVar,
                   _waitVar, jobsLeftMutex>>
    /\ UNCHANGED <<job, oldQueue, remainingJobs, joinIdx, assertFailed, hist>>

\* jobAvailableVar.notify_all(); the loop over threads starts.
JaNotify(c) ==
    /\ At(c, "ja_notify")
    /\ UNCHANGED <<emptyJobs, aborted, producer>>
    /\ jobAvailableVar' = NotifyAll(jobAvailableVar)
    /\ joinIdx' = [joinIdx EXCEPT ![c] = 1]
    /\ Goto(c, "ja_join")
    /\ UNCHANGED <<threads, joinable, _queue, jobsLeft, bailout, _waitVar,
                   jobsLeftMutex, queueMutex>>
    /\ UNCHANGED <<job, oldQueue, remainingJobs, assertFailed, hist>>

\* if (x.joinable()) x.join(); join returns once thread x has returned
\* from nextJob.  After the last thread joinAll returns.
JaJoin(c) ==
    /\ At(c, "ja_join")
    /\ UNCHANGED <<emptyJobs, aborted, producer>>
    /\ IF joinIdx[c] <= Len(threads)
       THEN /\ threads[joinIdx[c]] \in joinable
                => pc[threads[joinIdx[c]]] = "nj_done"
            /\ joinable' = joinable \ {threads[joinIdx[c]]}
            /\ joinIdx' = [joinIdx EXCEPT ![c] = @ + 1]
            /\ UNCHANGED pc
       ELSE /\ joinIdx' = [joinIdx EXCEPT ![c] = 0]
            /\ Goto(c, "idle")
            /\ UNCHANGED joinable
    /\ UNCHANGED <<threads, _queue, jobsLeft, bailout, jobAvailableVar,
                   _waitVar, jobsLeftMutex, queueMutex>>
    /\ UNCHANGED <<job, oldQueue, remainingJobs, assertFailed, hist>>

\* ---------------------------------------------------------- the program
Enqueue(c) ==
    \/ EnqueueCall(c) \/ EnqLockJobsLeft(c) \/ EnqIncrement(c)
    \/ EnqLockQueue(c) \/ EnqEmplace(c) \/ EnqNotify(c)

CancelPending(c) ==
    \/ CancelCall(c) \/ CpLock(c) \/ CpSwap(c) \/ CpSize(c) \/ CpReturn(c)

WaitAll(c) ==
    \/ WaitAllCall(c) \/ WaLock(c) \/ WaCheck(c) \/ WaWake(c)
    \/ WaRecheck(c) \/ WaSpurious(c) \/ WaReturn(c)

JoinAll(c) ==
    \/ JoinAllCall(c) \/ JaLock(c) \/ JaCheck(c) \/ JaNotify(c) \/ JaJoin(c)

NextJob(w) ==
    \/ NjLock(w) \/ NjCheck(w) \/ NjWake(w) \/ NjRecheck(w)
    \/ NjSpurious(w) \/ NjJob(w)

FinalizeJobs(t) == FinLock(t) \/ FinDecrement(t) \/ FinNotify(t)

Next ==
    \/ \E c \in Callers : Enqueue(c)
    \/ \E c \in Callers : CancelPending(c)
    \/ \E c \in Callers : WaitAll(c)
    \/ \E c \in Callers : JoinAll(c)
    \/ \E w \in Workers : NextJob(w)
    \/ \E t \in Threads : FinalizeJobs(t)

Spec == Init /\ [][Next]_vars

\* ------------------------------------------------------------ properties
NextNoShutdown ==
    \/ \E c \in Callers : Enqueue(c)
    \/ \E c \in Callers : CancelPending(c)
    \/ \E c \in Callers : WaitAll(c)
    \/ \E w \in Workers : NextJob(w)
    \/ \E t \in Threads : FinalizeJobs(t)

\* Producers, waiters and workers only: no cancelPending, no joinAll.
NextNoCancel ==
    \/ \E c \in Callers : Enqueue(c)
    \/ \E c \in Callers : WaitAll(c)
    \/ \E w \in Workers : NextJob(w)
    \/ \E w \in Workers : FinalizeJobs(w)

SpecNoCancel == Init /\ [][NextNoCancel]_vars

\* The steps of a client inside an operation it has called, and the steps
\* of a worker: what a fair scheduler keeps running.  Calling an operation
\* and waking spuriously are not among them.
ClientProgress(c) ==
    \/ EnqLockJobsLeft(c) \/ EnqIncrement(c) \/ EnqLockQueue(c)
    \/ EnqEmplace(c) \/ EnqNotify(c)
    \/ CpLock(c) \/ CpSwap(c) \/ CpSize(c) \/ CpReturn(c)
    \/ WaLock(c) \/ WaCheck(c) \/ WaWake(c) \/ WaRecheck(c) \/ WaReturn(c)
    \/ FinalizeJobs(c)

WorkerProgress(w) ==
    \/ NjLock(w) \/ NjCheck(w) \/ NjWake(w) \/ NjRecheck(w) \/ NjJob(w)
    \/ FinalizeJobs(w)

\* Every thread that can take a step again and again takes one: mutexes
\* are handed over fairly and every job terminates.
Fairness ==
    /\ \A c \in Callers : SF_vars(ClientProgress(c))
    /\ \A w \in Workers : SF_vars(WorkerProgress(w))

SpecFair == Init /\ [][NextNoShutdown]_vars /\ Fairness

\* Producers, cancelers and workers only: no waitAll, no joinAll.
NextNoWait ==
    \/ \E c \in Callers : Enqueue(c)
    \/ \E c \in Callers : CancelPending(c)
    \/ \E w \in Workers : NextJob(w)
    \/ \E t \in Threads : FinalizeJobs(t)

SpecFairNoWait == Init /\ [][NextNoWait]_vars /\ Fairness

RECURSIVE SumTo(_, _)
SumTo(f, n) == IF n = 0 THEN 0 ELSE f[n] + SumTo(f, n - 1)
\* The sum of a per-job counter over all jobs.
Total(f) == SumTo(f, MaxJobs)

\* Thread t takes a step.
Steps(t) == pc'[t] # pc[t]

\* The positions of a cancelPending call after its swap, and all of them.
CpAfterSwap == {"cp_size", "fin_lock", "fin_decrement", "fin_notify",
                "cp_return"}
CpPositions == {"cp_lock", "cp_swap"} \cup CpAfterSwap

\* ------------------------------------------------------------------- C1
\* C1: in every reachable state, under any interleaving of enqueue,
\* cancelPending, waitAll, worker steps and joinAll, jobsLeft is at least
\* the number of jobs in _queue.
C1_JobsLeftCoversQueue == jobsLeft >= Len(_queue)

\* The bound is tight with a job queued, after a cancelPending has removed
\* a job and shutdown has begun.
C1_Witness ==
    /\ Len(_queue) = 1
    /\ jobsLeft = 1
    /\ retSum = 1
    /\ bailout

\* ------------------------------------------------------------------- C2
\* C2: without cancelPending and without shutdown, when waitAll returns,
\* every job whose enqueue had returned before the waitAll call has been
\* executed exactly once, so the completion count of those N jobs is N.
C2_WaitAllSeesAllDone ==
    \A c \in Clients :
        pc[c] = "wa_return" =>
            /\ \A j \in waSnap[c] : execCount[j] = 1
            /\ Total([j \in Jobs |-> IF j \in waSnap[c] THEN execCount[j]
                                                        ELSE 0])
                   = Cardinality(waSnap[c])

\* A waitAll that was called after every enqueue had returned, suspended,
\* and has returned.
C2_Witness ==
    \E c \in Clients :
        /\ pc[c] = "wa_return"
        /\ waSnap[c] = Jobs
        /\ waBlocked[c]

\* ------------------------------------------------------------------- C3
\* C3: every job is popped by at most one worker and executed at most
\* once, and no job is both removed by a cancelPending (counted in its
\* return value) and popped or executed.
C3_AtMostOnce ==
    \A j \in Jobs :
        /\ deqCount[j] <= 1
        /\ execCount[j] <= 1
        /\ deqCount[j] + cancelCount[j] <= 1
        /\ execCount[j] + cancelCount[j] <= 1

\* Two workers hold one popped job each.
C3_Witness ==
    /\ pc[1] = "nj_job"
    /\ pc[2] = "nj_job"
    /\ job[1] # job[2]

\* ------------------------------------------------------------------- C4
\* C4: with at least one worker, no shutdown and fair scheduling, every
\* job whose enqueue has returned is eventually executed or removed by a
\* cancelPending, and no job stays in _queue forever, although enqueue
\* wakes one worker only.
C4_JobEventuallyHandled ==
    \A j \in Jobs :
        /\ (Len(threads) >= 1 /\ j \in Returned)
               ~> (execCount[j] = 1 \/ cancelCount[j] = 1)
        /\ (Len(threads) >= 1 /\ j \in Range(_queue))
               ~> (j \notin Range(_queue))

\* A job whose enqueue has returned is queued, and only one of the two
\* suspended workers has been woken.
C4_Witness ==
    /\ Len(_queue) = 1
    /\ Range(_queue) \subseteq Returned
    /\ pc[1] = "nj_wait"
    /\ pc[2] = "nj_wait"
    /\ Cardinality(jobAvailableVar) = 1

\* ------------------------------------------------------------------- C5
\* A job removed by cancelPending is never popped or executed, and is
\* neither in _queue nor in a worker's hands.
C5_RemovedNeverRun ==
    \A j \in Jobs :
        cancelCount[j] > 0 =>
            /\ execCount[j] = 0
            /\ deqCount[j] = 0
            /\ j \notin Range(_queue)
            /\ \A w \in Workers : job[w] # j

\* The swap takes the whole _queue; oldQueue is not touched between the
\* swap and the return; the value returned is its length.
C5_SwapTakesQueue ==
    \A c \in Clients :
        /\ (pc[c] = "cp_swap" /\ Steps(c)) =>
               /\ oldQueue'[c] = _queue
               /\ _queue' = <<>>
        /\ (pc[c] \in CpAfterSwap /\ pc'[c] # "idle") =>
               oldQueue'[c] = oldQueue[c]
        /\ (pc[c] = "cp_return" /\ Steps(c)) =>
               retSum' = retSum + Len(oldQueue[c])

\* C5: the swap of cancelPending, one step under queueMutex, takes exactly
\* the jobs in _queue at that instant and leaves _queue empty; the call
\* returns their number (jobs enqueued after the swap are not among them);
\* and a removed job is never executed.
C5_CancelRemovesQueued == []C5_RemovedNeverRun /\ [][C5_SwapTakesQueue]_vars

\* A cancelPending is about to return 1 while a job that was enqueued after
\* its swap sits in _queue.
C5_Witness ==
    \E c \in Clients :
        /\ pc[c] = "cp_return"
        /\ Len(oldQueue[c]) = 1
        /\ Len(_queue) = 1

\* ------------------------------------------------------------------- C6
\* C6 as stated: a waitAll that is blocked when the decrement of a
\* cancelPending makes jobsLeft zero is woken and returns.
C6_BlockedWaiterReturns ==
    \A c \in Clients : (crossed[c] \in Clients) ~> (pc[c] = "wa_return")

\* The decrement of a cancelPending is by the number of jobs it removed and
\* marks the blocked waiters when it reaches zero; its notify_all then
\* empties _waitVar with no step of a worker; a marked waiter returns at
\* its re-check if jobsLeft is zero and suspends again if it is not.
C6_CancelWakesWaiters ==
    \A c \in Clients :
        /\ (pc[c] = "fin_decrement" /\ Steps(c)) =>
               /\ Len(oldQueue[c]) > 0
               /\ jobsLeft' = jobsLeft - Len(oldQueue[c])
               /\ \A w \in Clients :
                      (jobsLeft' = 0 /\ pc[w] = "wa_wait") => crossed'[w] = c
        /\ (pc[c] = "fin_notify" /\ remainingJobs[c] = 0 /\ Steps(c)) =>
               /\ _waitVar' = {}
               /\ \A w \in Workers : pc'[w] = pc[w]
        /\ (crossed[c] \in Clients /\ pc[c] = "wa_recheck" /\ Steps(c)) =>
               IF jobsLeft = 0 THEN pc'[c] = "wa_return"
                               ELSE pc'[c] = "wa_wait"

\* A waiter that was blocked when jobsLeft became zero is no longer
\* suspended, or the notify_all that wakes it is the next step of the
\* thread that made the decrement.
C6_WokenNotRunYet ==
    \A c \in Clients :
        (crossed[c] # NoThread /\ pc[c] = "wa_wait") =>
            \/ c \notin _waitVar
            \/ /\ pc[crossed[c]] = "fin_notify"
               /\ remainingJobs[crossed[c]] = 0

\* C6, amended: a cancelPending that removed C > 0 jobs decrements
\* jobsLeft by exactly C; if the result is zero its notify_all wakes every
\* thread blocked in waitAll, with no step of a worker (also with zero
\* workers); a woken waitAll returns if jobsLeft is still zero when it
\* re-checks it, and suspends again if an enqueue has incremented jobsLeft
\* in between.
C6_CancelReleasesWaiters ==
    []C6_WokenNotRunYet /\ [][C6_CancelWakesWaiters]_vars

\* In a pool of zero workers a waitAll that was blocked when a
\* cancelPending made jobsLeft zero has returned.
C6_Witness ==
    \E c \in Clients :
        /\ pc[c] = "wa_return"
        /\ crossed[c] \in Clients
        /\ Len(threads) = 0

\* ------------------------------------------------------------------- C7
\* C7: when every operation has returned and jobsLeft is 0, without
\* shutdown, the submitted jobs are the cancelled ones (the sum of the
\* values cancelPending returned) plus the executed ones; and a value that
\* cancelPending returns is at most the jobs submitted so far minus the
\* jobs workers have popped.
C7_Accounting ==
    /\ ((\A c \in Clients : pc[c] = "idle") /\ jobsLeft = 0 /\ ~bailout) =>
           numEnq = retSum + Total(execCount)
    /\ \A c \in Clients :
           pc[c] = "cp_return" =>
               Len(oldQueue[c]) <= numEnq - Total(deqCount)

\* Quiescence after one job was cancelled and one was executed.
C7_Witness ==
    /\ \A c \in Clients : pc[c] = "idle"
    /\ jobsLeft = 0
    /\ ~bailout
    /\ retSum = 1
    /\ Total(execCount) = 1

\* ------------------------------------------------------------------- C8
\* A popped job is in no oldQueue and not counted as removed, also not by
\* a cancelPending whose swap came after the pop, and its counter slot
\* stays until the worker has decremented.
C8_PoppedOutOfReach ==
    /\ \A w \in Workers :
           job[w] # NoJob =>
               /\ cancelCount[job[w]] = 0
               /\ \A c \in Clients : job[w] \notin Range(oldQueue[c])
               /\ pc[w] \in {"nj_job", "fin_lock", "fin_decrement"} =>
                      jobsLeft >= 1
    /\ \A c \in Clients :
           \A j \in heldAtSwap[c] : j \notin Range(oldQueue[c])

\* No step of a cancelPending call changes the position or the job of a
\* worker that holds a job; the worker's next step executes the job; its
\* decrement is by one.
C8_WorkerCarriesOn ==
    \A w \in Workers :
        /\ (job[w] # NoJob
                /\ \E c \in Clients : pc[c] \in CpPositions /\ Steps(c)) =>
               /\ job'[w] = job[w]
               /\ pc'[w] = pc[w]
               /\ execCount'[job[w]] = execCount[job[w]]
        /\ (pc[w] = "nj_job" /\ Steps(w)) =>
               /\ pc'[w] = "fin_lock"
               /\ execCount'[job[w]] = execCount[job[w]] + 1
        /\ (pc[w] = "fin_decrement" /\ Steps(w)) =>
               jobsLeft' = jobsLeft - 1

\* C8: a job that a worker has popped is not affected by a later
\* cancelPending: the value that cancelPending returns does not count it,
\* the worker still executes it and still decrements jobsLeft by one for
\* it.
C8_PoppedJobSurvivesCancel ==
    []C8_PoppedOutOfReach /\ [][C8_WorkerCarriesOn]_vars

\* A cancelPending that removed a job is about to return while a job that
\* a worker held at the swap has been executed and decremented.
C8_Witness ==
    \E c \in Clients :
        /\ pc[c] = "cp_return"
        /\ Len(oldQueue[c]) = 1
        /\ \E w \in Workers :
               /\ job[w] \in heldAtSwap[c]
               /\ pc[w] = "fin_notify"
               /\ execCount[job[w]] = 1

\* ------------------------------------------------------------------- C9
\* The steps of a cancelPending that found _queue empty under queueMutex
\* change nothing but its own position and the mutex it releases, and lead
\* to the return, not into finalizeJobs.
C9_EmptyCancelIsNoOp ==
    \A c \in Clients :
        (/\ Steps(c)
         /\ \/ pc[c] = "cp_swap" /\ _queue = <<>>
            \/ pc[c] \in {"cp_size", "cp_return"} /\ oldQueue[c] = <<>>) =>
            /\ UNCHANGED <<_queue, jobsLeft, bailout, jobAvailableVar,
                           _waitVar, jobsLeftMutex, retSum, assertFailed>>
            /\ \A t \in Threads \ {c} : pc'[t] = pc[t]
            /\ pc'[c] \in {"cp_size", "cp_return", "idle"}
            /\ oldQueue'[c] = <<>>

\* C9: cancelPending called when _queue is empty returns 0 and leaves
\* jobsLeft, _queue, bailout and the state of every worker and waiter
\* unchanged: no decrement, no notification, whatever jobsLeft is.
C9_EmptyCancelNoEffect == [][C9_EmptyCancelIsNoOp]_vars

\* A cancelPending that found _queue empty is about to return 0 while a
\* job is live and a waitAll is suspended.
C9_Witness ==
    \E c \in Clients :
        /\ pc[c] = "cp_return"
        /\ oldQueue[c] = <<>>
        /\ jobsLeft > 0
        /\ _waitVar # {}

\* ------------------------------------------------------------------ C10
\* Before its first check a waitAll has not suspended.
C10_NotYetBlocked ==
    \A c \in Clients :
        pc[c] \in {"wa_lock", "wa_check"} => ~waBlocked[c] /\ c \notin _waitVar

\* The check that finds jobsLeft = 0 leads to the return in one step.
C10_ZeroReturnsAtOnce ==
    \A c \in Clients :
        (pc[c] = "wa_check" /\ jobsLeft = 0 /\ Steps(c)) =>
            /\ pc'[c] = "wa_return"
            /\ c \notin _waitVar'
            /\ ~waBlocked'[c]

\* C10: a waitAll that finds jobsLeft = 0 when it holds jobsLeftMutex
\* returns without ever suspending on _waitVar.
C10_WaitAllZeroNoSuspend ==
    []C10_NotYetBlocked /\ [][C10_ZeroReturnsAtOnce]_vars

\* A waitAll returns without having suspended, after a job has run.
C10_Witness ==
    \E c \in Clients :
        /\ pc[c] = "wa_return"
        /\ ~waBlocked[c]
        /\ Total(execCount) >= 1

\* ------------------------------------------------------------------ C11
\* The jobs whose enqueue has incremented jobsLeft.
Incremented ==
    {j \in 1..numEnq :
        \A c \in Clients :
            job[c] = j => pc[c] \notin {"enq_lockJobsLeft", "enq_increment"}}

\* Job j has been executed and decremented for by its worker, or has been
\* removed and decremented for by a cancelPending.
Settled(j) ==
    \/ /\ execCount[j] = 1
       /\ \A w \in Workers : job[w] = j => pc[w] = "fin_notify"
    \/ /\ cancelCount[j] = 1
       /\ \A c \in Clients :
              j \in Range(oldQueue[c]) => pc[c] \in {"fin_notify", "cp_return"}

\* Whenever jobsLeft is zero no job that was counted is queued, running or
\* waiting for its decrement.
C11_ZeroMeansAllSettled ==
    jobsLeft = 0 =>
        \A j \in Incremented : Settled(j) /\ j \notin Range(_queue)

\* The only way to the return of waitAll is a test of jobsLeft that finds
\* zero while the caller holds jobsLeftMutex.
C11_ReturnsOnlyOnZero ==
    \A c \in Clients :
        (pc[c] # "wa_return" /\ pc'[c] = "wa_return") =>
            /\ pc[c] \in {"wa_check", "wa_recheck"}
            /\ jobsLeftMutex = c
            /\ jobsLeft = 0

\* C11: waitAll returns only after it has observed jobsLeft = 0 under
\* jobsLeftMutex, and whenever jobsLeft is 0 every job whose enqueue has
\* incremented the counter has finished executing or has been removed by a
\* cancelPending: none is queued, running or waiting for its decrement.
C11_WaitAllObservesZero ==
    []C11_ZeroMeansAllSettled /\ [][C11_ReturnsOnlyOnZero]_vars

\* A waitAll that suspended has returned on zero after a job was settled,
\* while the enqueue of another job has not incremented jobsLeft yet.
C11_Witness ==
    \E c \in Clients :
        /\ pc[c] = "wa_return"
        /\ waBlocked[c]
        /\ jobsLeft = 0
        /\ Incremented # {}
        /\ \E d \in Clients : pc[d] = "enq_lockJobsLeft"

\* ------------------------------------------------------------------ C12
\* One client submits and cancels, the two observers call waitAll only; no
\* shutdown.
NextWaiters ==
    \/ \E c \in Clients \ Observers : Enqueue(c)
    \/ \E c \in Clients \ Observers : CancelPending(c)
    \/ \E c \in Observers : WaitAll(c)
    \/ \E w \in Workers : NextJob(w)
    \/ \E t \in Threads : FinalizeJobs(t)

SpecWaiters ==
    /\ Init
    /\ [][NextWaiters]_vars
    /\ Fairness
    /\ \A c \in Clients \ Callers : SF_vars(ClientProgress(c))

\* The waitAll calls that were blocked at the latest zero crossing.
CrossedWaiters == {c \in Clients : crossed[c] # NoThread}

\* C12 as stated: when jobsLeft reaches zero while several threads are
\* blocked in waitAll, every one of them returns from waitAll.
C12_AllWaitersReturn ==
    \A c \in Clients :
        (c \in CrossedWaiters /\ Cardinality(CrossedWaiters) >= 2)
            ~> (pc[c] = "wa_return")

\* The decrement that makes jobsLeft zero marks every blocked waiter; the
\* notify_all of the same thread leaves nobody suspended on _waitVar; a
\* marked waiter that re-checks returns if jobsLeft is zero and suspends
\* again if it is not.
C12_ReleasedTogether ==
    /\ \A t \in Threads :
           /\ (pc[t] = "fin_decrement" /\ Steps(t) /\ jobsLeft' = 0) =>
                  \A c \in Clients : pc[c] = "wa_wait" => crossed'[c] = t
           /\ (pc[t] = "fin_notify" /\ remainingJobs[t] = 0 /\ Steps(t)) =>
                  _waitVar' = {}
    /\ \A c \in CrossedWaiters :
           (pc[c] = "wa_recheck" /\ Steps(c)) =>
               pc'[c] = IF jobsLeft = 0 THEN "wa_return" ELSE "wa_wait"

\* A marked waiter is still suspended only while the notify_all of the
\* thread that marked it is pending.
C12_NoneLeftSuspended ==
    \A c \in CrossedWaiters \cap _waitVar :
        /\ pc[crossed[c]] = "fin_notify"
        /\ remainingJobs[crossed[c]] = 0

\* C12, amended: whenever jobsLeft reaches zero while several threads are
\* blocked in waitAll, the notify_all of the thread that made the decrement
\* wakes all of them; each woken thread returns if jobsLeft is still zero
\* when it re-checks it under jobsLeftMutex, and suspends again if a
\* producer has incremented jobsLeft in between.
C12_AllWaitersWoken ==
    []C12_NoneLeftSuspended /\ [][C12_ReleasedTogether]_vars

\* Two waitAll calls that were blocked at the same zero crossing have both
\* returned.
C12_Witness ==
    /\ pc[4] = "wa_return"
    /\ pc[5] = "wa_return"
    /\ crossed[4] # NoThread
    /\ crossed[4] = crossed[5]

SpecFairNoCancel == Init /\ [][NextNoCancel]_vars /\ Fairness

\* ------------------------------------------------------------------ C14
\* The steps of a client inside joinAll.
ShutdownProgress(c) == JaLock(c) \/ JaCheck(c) \/ JaNotify(c) \/ JaJoin(c)

\* Producers, cancelers, workers and shutdown under fair scheduling; no
\* waitAll.
NextShutdown ==
    \/ \E c \in Callers : Enqueue(c)
    \/ \E c \in Callers : CancelPending(c)
    \/ \E c \in Callers : JoinAll(c)
    \/ \E w \in Workers : NextJob(w)
    \/ \E t \in Threads : FinalizeJobs(t)

SpecFairShutdown ==
    /\ Init
    /\ [][NextShutdown]_vars
    /\ \A c \in Callers : SF_vars(ClientProgress(c) \/ ShutdownProgress(c))
    /\ \A w \in Workers : SF_vars(WorkerProgress(w))

\* The joinAll that has run the loop over threads returns when every
\* worker has returned from nextJob and was joined.
C14_WorkersGone ==
    \A c \in Clients :
        (pc[c] = "ja_join" /\ pc'[c] = "idle") =>
            /\ joinable = {}
            /\ \A w \in Range(threads) :
                   pc[w] = "nj_done" /\ w \notin jobAvailableVar

\* C14: joinAll started in any reachable state (right after construction,
\* with idle workers, with jobs queued, with jobs running) eventually
\* returns when every running job terminates, and when the call that shut
\* the pool down returns every worker thread has terminated, none is left
\* suspended on jobAvailableVar.
C14_ShutdownCompletes ==
    /\ \A c \in Callers : (pc[c] = "ja_lock") ~> (pc[c] = "idle")
    /\ [][C14_WorkersGone]_vars

\* Shutdown has returned in a pool of two workers after a job was run,
\* with a job still queued.
C14_Witness ==
    /\ bailout
    /\ \A c \in Clients : pc[c] = "idle"
    /\ Len(threads) = 2
    /\ joinable = {}
    /\ Total(execCount) >= 1
    /\ Len(_queue) >= 1

\* ------------------------------------------------------------------ C15
\* The steps of a joinAll that finds bailout true: it takes queueMutex,
\* tests the flag, releases the mutex and returns; nothing else changes.
C15_SecondJoinAllSteps ==
    \A c \in Clients :
        (bailout /\ pc[c] \in {"ja_lock", "ja_check"} /\ Steps(c)) =>
            /\ UNCHANGED <<threads, joinable, _queue, jobsLeft, bailout,
                           jobAvailableVar, _waitVar, jobsLeftMutex,
                           joinIdx, assertFailed>>
            /\ \A t \in Threads \ {c} : pc'[t] = pc[t]
            /\ pc[c] = "ja_lock" => pc'[c] = "ja_check"
            /\ pc[c] = "ja_check" => pc'[c] = "idle" /\ queueMutex' = NoThread

\* C15: a joinAll called when bailout is already true is a no-op: it
\* changes no state, sends no notification, joins no thread and raises no
\* fault.
C15_SecondJoinAllNoOp == [][C15_SecondJoinAllSteps]_vars

\* A second joinAll holds queueMutex and is about to test the flag while
\* the first one is in its loop and a worker still runs a job.
C15_Witness ==
    \E c, d \in Clients :
        /\ pc[c] = "ja_check"
        /\ bailout
        /\ pc[d] = "ja_join"
        /\ \E w \in Workers : pc[w] = "nj_job"

\* ------------------------------------------------------------------ C16
\* The positions of a joinAll call.
JaPositions == {"ja_lock", "ja_check", "ja_notify", "ja_join"}

\* No step of joinAll touches _queue or jobsLeft, and from the step that
\* sets the flag on a queued job leaves _queue only through the swap of a
\* cancelPending.
C16_JoinAllKeepsJobs ==
    /\ \A c \in Clients :
           (pc[c] \in JaPositions /\ Steps(c)) => UNCHANGED <<_queue, jobsLeft>>
    /\ bailout' =>
           \A j \in Range(_queue) :
               j \in Range(_queue') \/ cancelCount'[j] > cancelCount[j]

\* Once the pool is shut down and every call has returned, jobsLeft counts
\* exactly the jobs that sit in _queue.
C16_StillCounted ==
    (/\ bailout
     /\ \A c \in Clients : pc[c] = "idle"
     /\ \A w \in Range(threads) : pc[w] = "nj_done") =>
        jobsLeft = Len(_queue)

\* C16: shutdown does not cancel pending jobs: joinAll removes nothing
\* from _queue and does not change jobsLeft, so the jobs queued when the
\* flag is set are still in _queue and still counted in jobsLeft after
\* shutdown has returned.
C16_ShutdownKeepsPending ==
    []C16_StillCounted /\ [][C16_JoinAllKeepsJobs]_vars

\* Shutdown of a pool with workers has returned; two jobs are queued and
\* counted, and no worker has popped either.
C16_Witness ==
    /\ bailout
    /\ \A c \in Clients : pc[c] = "idle"
    /\ Len(threads) >= 1
    /\ joinable = {}
    /\ Len(_queue) = 2
    /\ jobsLeft = 2

\* ------------------------------------------------------------------ C17
\* Producers that may pass an empty job, cancelers and workers.
NextEmptyJob ==
    \/ \E c \in Callers : Enqueue(c)
    \/ \E c \in Callers : EnqueueEmptyCall(c)
    \/ \E c \in Callers : CancelPending(c)
    \/ \E w \in Workers : NextJob(w)
    \/ \E t \in Threads : FinalizeJobs(t)

SpecEmptyJob == Init /\ [][NextEmptyJob]_vars

\* No step of an enqueue call whose job is empty changes jobsLeft, _queue
\* or the set of suspended workers.
C17_EmptyEnqueueChangesNothing ==
    \A c \in Clients :
        (job[c] \in emptyJobs /\ Steps(c)) =>
            UNCHANGED <<jobsLeft, _queue, jobAvailableVar>>

\* C17: an enqueue of an empty job is rejected and mutates no state:
\* jobsLeft and _queue are after the call what they were before it, no
\* worker is woken, and the empty job never reaches a worker.
C17_EmptyJobRejected ==
    /\ [][C17_EmptyEnqueueChangesNothing]_vars
    /\ [](\A w \in Workers : job[w] \notin emptyJobs)

\* ------------------------------------------------------------------ C18
\* C18: a pool constructed with zero workers accepts enqueue calls (the
\* counter is incremented and the job is queued) but never pops or
\* executes a job, and a waitAll called after an enqueue has returned
\* does not return unless a cancelPending has removed the jobs submitted
\* before it.
C18_ZeroWorkers ==
    Len(threads) = 0 =>
        /\ Total(deqCount) = 0
        /\ Total(execCount) = 0
        /\ \A j \in Returned : j \in Range(_queue) \/ cancelCount[j] = 1
        /\ jobsLeft >= Cardinality({j \in Incremented : cancelCount[j] = 0})
        /\ \A c \in Clients :
               pc[c] = "wa_return" => \A j \in waSnap[c] : cancelCount[j] = 1

\* In a pool of zero workers both jobs are queued and counted, every other
\* call has returned, and a waitAll called after the enqueues is suspended.
C18_Witness ==
    /\ Len(threads) = 0
    /\ Len(_queue) = 2
    /\ jobsLeft = 2
    /\ \E c \in Clients :
           /\ pc[c] = "wa_wait"
           /\ c \in _waitVar
           /\ waSnap[c] = Jobs
           /\ \A d \in Clients \ {c} : pc[d] = "idle"

\* ------------------------------------------------------------------ C19
\* While bailout is true an enqueue still increments jobsLeft and appends
\* its job, and no job of _queue is popped: a job leaves _queue only
\* through the swap of a cancelPending, and jobsLeft changes only by the
\* increment of an enqueue and the decrement of a finalizeJobs.
C19_LateEnqueueSteps ==
    bailout =>
        /\ \A c \in Clients :
               /\ (pc[c] = "enq_increment" /\ Steps(c)) =>
                      jobsLeft' = jobsLeft + 1
               /\ (pc[c] = "enq_emplace" /\ Steps(c)) =>
                      _queue' = Append(_queue, job[c])
        /\ deqCount' = deqCount
        /\ \A w \in Workers : job'[w] # job[w] => job'[w] = NoJob
        /\ \A j \in Range(_queue) :
               j \in Range(_queue') \/ cancelCount'[j] > cancelCount[j]

\* A job that is queued while bailout is true has not been popped or
\* executed, and it is counted in jobsLeft.
C19_LateJobNotRun ==
    bailout =>
        /\ \A j \in Range(_queue) : deqCount[j] = 0 /\ execCount[j] = 0
        /\ jobsLeft >= Len(_queue)

\* C19: an enqueue that inserts its job after bailout has been set is
\* accepted (jobsLeft incremented, job appended), but no worker ever pops
\* or executes the job, and it stays counted in jobsLeft.
C19_LateEnqueueNeverRuns ==
    []C19_LateJobNotRun /\ [][C19_LateEnqueueSteps]_vars

\* The pool is shut down and its workers have returned; an enqueue holds
\* queueMutex and is about to insert its job.
C19_Witness ==
    \E c \in Clients :
        /\ pc[c] = "enq_emplace"
        /\ bailout
        /\ Len(threads) >= 1
        /\ \A w \in Range(threads) : pc[w] = "nj_done"

\* ------------------------------------------------------------------ C20
\* The steps of a worker other than job(): a job may run for ever.
WorkerProgressNoJob(w) ==
    \/ NjLock(w) \/ NjCheck(w) \/ NjWake(w) \/ NjRecheck(w)
    \/ FinalizeJobs(w)

\* Producers, cancelers and workers under fair scheduling, where a job need
\* not terminate.
SpecFairJobsHang ==
    /\ Init
    /\ [][NextNoWait]_vars
    /\ \A c \in Callers : SF_vars(ClientProgress(c))
    /\ \A w \in Workers : SF_vars(WorkerProgressNoJob(w))

\* C20: under fair scheduling every call of enqueue and of cancelPending
\* returns, also when every worker is executing a job that never finishes
\* and when all workers are suspended idle: neither call waits for a job.
C20_CallsComplete ==
    \A c \in Callers :
        (pc[c] \in {"enq_lockJobsLeft", "cp_lock"}) ~> (pc[c] = "idle")

\* A cancelPending is about to return while both workers execute a job.
C20_Witness ==
    \E c \in Clients :
        /\ pc[c] = "cp_return"
        /\ pc[1] = "nj_job"
        /\ pc[2] = "nj_job"

\* ------------------------------------------------------------------ C21
\* Producers whose identity is recorded, cancelers and workers.
NextOrder ==
    \/ \E c \in Callers : EnqueueCallBy(c)
    \/ \E c \in Callers : EnqLockJobsLeft(c) \/ EnqIncrement(c)
    \/ \E c \in Callers : EnqLockQueue(c) \/ EnqEmplace(c) \/ EnqNotify(c)
    \/ \E c \in Callers : CancelPending(c)
    \/ \E w \in Workers : NextJob(w)
    \/ \E t \in Threads : FinalizeJobs(t)

SpecOrder == Init /\ [][NextOrder]_vars

\* A is submitted before B by the same thread: a thread calls enqueue for
\* B only after its enqueue of A has returned, and jobs are numbered in the
\* order of the calls.
SameProducerBefore(A, B) ==
    /\ A < B
    /\ producer[A] # NoThread
    /\ producer[A] = producer[B]

\* When B has been popped, A has been popped or removed before: A is not
\* popped after B.  No job is popped twice or popped after its removal.
C21_EarlierJobGone ==
    /\ \A A, B \in Jobs :
           (SameProducerBefore(A, B) /\ deqCount[B] >= 1) =>
               /\ deqCount[A] + cancelCount[A] = 1
               /\ A \notin Range(_queue)
    /\ \A j \in Jobs : deqCount[j] + cancelCount[j] <= 1

\* A worker pops the front of _queue, and in _queue A stands before B.
C21_PopsFront ==
    /\ \A j \in Jobs :
           deqCount'[j] > deqCount[j] =>
               /\ _queue # <<>>
               /\ j = Head(_queue)
               /\ _queue' = Tail(_queue)
    /\ \A A, B \in Jobs :
           SameProducerBefore(A, B) =>
               \A i, k \in 1..Len(_queue) :
                   (_queue[i] = A /\ _queue[k] = B) => i < k

WorkerBusy(w) == pc[w] \in {"nj_job", "fin_lock", "fin_decrement"}

\* Client c is inside enqueue between the increment of jobsLeft and the
\* insertion of the job.
EnqueueHalfDone(c) == pc[c] \in {"enq_lockQueue", "enq_emplace"}

\* Client c is inside cancelPending between the swap that removed jobs and
\* its decrement of jobsLeft.
CancelHalfDone(c) ==
    /\ pc[c] \in {"cp_size", "fin_lock", "fin_decrement"}
    /\ oldQueue[c] # <<>>

\* C22 as stated: in every reachable state in which no worker is between
\* popping a job and completing the decrement for it, jobsLeft equals the
\* number of jobs in _queue.
C22_EqualWhenWorkersIdle ==
    (\A w \in Workers : ~WorkerBusy(w)) => jobsLeft = Len(_queue)

\* C22, amended: in every reachable state in which no worker is between
\* popping a job and completing the decrement for it, no enqueue is
\* between its increment of jobsLeft and its insertion into _queue, and no
\* cancelPending is between its swap and its decrement, jobsLeft equals
\* the number of jobs in _queue.
C22_EqualWhenNothingHalfDone ==
    (/\ \A w \in Workers : ~WorkerBusy(w)
     /\ \A c \in Clients : ~EnqueueHalfDone(c) /\ ~CancelHalfDone(c)) =>
        jobsLeft = Len(_queue)

\* After one job was run and decremented for, the other job is queued
\* and counted and its enqueue is about to notify; nothing is half done.
C22_Witness ==
    /\ \A w \in Workers : ~WorkerBusy(w)
    /\ \A c \in Clients : ~EnqueueHalfDone(c) /\ ~CancelHalfDone(c)
    /\ Len(_queue) = 1
    /\ jobsLeft = 1
    /\ Total(execCount) = 1
    /\ \E c \in Clients : pc[c] = "enq_notify"

\* ------------------------------------------------------------------ C23
\* C23: a worker that is executing a job holds neither queueMutex nor
\* jobsLeftMutex; a worker holds queueMutex only while it tests bailout and
\* the queue and pops, and does not hold it while it is suspended on
\* jobAvailableVar.
C23_WorkerLocks ==
    \A w \in Workers :
        /\ pc[w] = "nj_job" => queueMutex # w /\ jobsLeftMutex # w
        /\ queueMutex = w <=> pc[w] \in {"nj_check", "nj_recheck"}
        /\ pc[w] = "nj_wait" => queueMutex # w /\ jobsLeftMutex # w
        /\ jobsLeftMutex = w <=> pc[w] = "fin_decrement"

\* While one worker executes a job the other worker holds queueMutex and
\* a client holds jobsLeftMutex.
C23_Witness ==
    /\ pc[1] = "nj_job"
    /\ queueMutex = 2
    /\ jobsLeftMutex \in Clients

\* ------------------------------------------------------------------ C24
\* A pop is a step of a worker that holds queueMutex, with _queue
\* non-empty and bailout false, and takes the front job.  A worker that
\* leaves the wait first re-acquires queueMutex; at the re-check it
\* terminates if bailout is true, else pops if _queue is non-empty, else
\* suspends again.
C24_PopOnlyAfterCheck ==
    \A w \in Workers :
        /\ (pc[w] # "nj_job" /\ pc'[w] = "nj_job") =>
               /\ pc[w] \in {"nj_check", "nj_recheck"}
               /\ queueMutex = w
               /\ _queue # <<>>
               /\ ~bailout
               /\ job'[w] = Head(_queue)
               /\ _queue' = Tail(_queue)
        /\ (pc[w] = "nj_wait" /\ Steps(w)) =>
               /\ pc'[w] = "nj_recheck"
               /\ queueMutex' = w
               /\ UNCHANGED <<_queue, deqCount, job>>
        /\ (pc[w] = "nj_recheck" /\ Steps(w)) =>
               /\ pc'[w] = IF bailout THEN "nj_done"
                           ELSE IF _queue # <<>> THEN "nj_job"
                           ELSE "nj_wait"
               /\ pc'[w] = "nj_wait" => w \in jobAvailableVar'
        /\ (pc[w] \notin {"nj_check", "nj_recheck"} /\ Steps(w)) =>
               UNCHANGED <<_queue, deqCount>>

\* C24: a worker never pops from an empty _queue: after any wakeup
\* (notify_one, notify_all, a spurious wake, a wake whose job was taken by
\* another worker or removed by cancelPending) it re-checks under
\* queueMutex and pops only if _queue is non-empty and bailout is false,
\* otherwise it waits again or terminates.
C24_NeverPopsEmpty == [][C24_PopOnlyAfterCheck]_vars

\* A woken worker holds queueMutex for its re-check; the job it was woken
\* for has been removed by a cancelPending, _queue is empty and bailout is
\* false.
C24_Witness ==
    \E w \in Workers :
        /\ pc[w] = "nj_recheck"
        /\ _queue = <<>>
        /\ ~bailout
        /\ Total(cancelCount) >= 1
        /\ Total(deqCount) = 0

\* ------------------------------------------------------------------ C25
\* In a state where bailout is true no step pops: no job is handed to a
\* worker and deqCount does not change; a worker that tests the flag under
\* queueMutex returns from nextJob and leaves _queue as it is, also when
\* _queue is non-empty.
C25_FlagBeforeQueue ==
    bailout =>
        /\ deqCount' = deqCount
        /\ \A w \in Workers :
               /\ pc'[w] = "nj_job" => pc[w] = "nj_job"
               /\ (pc[w] \in {"nj_check", "nj_recheck"} /\ Steps(w)) =>
                      /\ pc'[w] = "nj_done"
                      /\ _queue' = _queue
                      /\ job'[w] = NoJob

\* C25: once bailout is true no worker dequeues a job any more: no pop of
\* _queue happens in a state where bailout is true, even if _queue is
\* non-empty, because the flag is tested under queueMutex before the
\* queue is.
C25_NoPopAfterBailout == [][C25_FlagBeforeQueue]_vars

\* A worker holds queueMutex for its check with bailout true and a job in
\* _queue.
C25_Witness ==
    \E w \in Workers :
        /\ pc[w] \in {"nj_check", "nj_recheck"}
        /\ bailout
        /\ _queue # <<>>

\* ------------------------------------------------------------------ C26
\* Producers, waiters, workers and shutdown under fair scheduling; no
\* cancelPending.
NextShutdownWait ==
    \/ \E c \in Callers : Enqueue(c)
    \/ \E c \in Callers : WaitAll(c)
    \/ \E c \in Callers : JoinAll(c)
    \/ \E w \in Workers : NextJob(w)
    \/ \E w \in Workers : FinalizeJobs(w)

SpecFairShutdownWait ==
    /\ Init
    /\ [][NextShutdownWait]_vars
    /\ \A c \in Callers : SF_vars(ClientProgress(c) \/ ShutdownProgress(c))
    /\ \A w \in Workers : SF_vars(WorkerProgress(w))

\* A worker returns from nextJob only at a check of the flag, without a
\* job in its hands.  Shutdown does not change what a worker does with a
\* job it has popped: it executes it, decrements jobsLeft by one and, if
\* that made jobsLeft zero, wakes every thread suspended on _waitVar.
C26_ReturnsOnlyIdle ==
    \A w \in Workers :
        /\ (pc[w] # "nj_done" /\ pc'[w] = "nj_done") =>
               /\ pc[w] \in {"nj_check", "nj_recheck"}
               /\ job[w] = NoJob
        /\ (bailout /\ pc[w] = "nj_job" /\ Steps(w)) =>
               /\ execCount'[job[w]] = execCount[job[w]] + 1
               /\ pc'[w] = "fin_lock"
        /\ (bailout /\ pc[w] = "fin_decrement" /\ Steps(w)) =>
               /\ jobsLeft' = jobsLeft - 1
               /\ pc'[w] = "fin_notify"
        /\ (bailout /\ pc[w] = "fin_notify" /\ Steps(w)) =>
               /\ remainingJobs[w] = 0 => _waitVar' = {}
               /\ pc'[w] = "nj_lock"

\* A worker that has returned holds no job, and once every worker of the
\* pool has returned (which joinAll waits for) every popped job has been
\* executed and decremented for.
C26_PoppedJobsSettled ==
    /\ \A w \in Workers : pc[w] = "nj_done" => job[w] = NoJob
    /\ (\A w \in Range(threads) : pc[w] = "nj_done") =>
           \A j \in Jobs : deqCount[j] = 1 => execCount[j] = 1 /\ Settled(j)

\* C26: a worker terminates only from the idle check point: a job that a
\* worker had popped when shutdown began is executed to completion and its
\* decrement of jobsLeft, with the notification if it reaches zero,
\* happens before the worker terminates and before joinAll returns.
C26_BusyWorkerFinishesJob ==
    /\ \A w \in Workers : (bailout /\ pc[w] = "nj_job") ~> (pc[w] = "nj_done")
    /\ []C26_PoppedJobsSettled
    /\ [][C26_ReturnsOnlyIdle /\ C14_WorkersGone]_vars

\* During shutdown a worker has executed the job it had popped, made
\* jobsLeft zero and is about to wake a suspended waitAll.
C26_Witness ==
    \E w \in Workers :
        /\ bailout
        /\ pc[w] = "fin_notify"
        /\ remainingJobs[w] = 0
        /\ execCount[job[w]] = 1
        /\ _waitVar # {}
        /\ \E c \in Clients : pc[c] = "ja_join"

\* ------------------------------------------------------------------ C27
\* A thread inside finalizeJobs, past its critical section, with the value
\* of jobsLeft it read there.
Observed(t, n) == pc[t] = "fin_notify" /\ remainingJobs[t] = n

\* jobsLeft goes from positive to zero in this step.
ReachesZero == jobsLeft > 0 /\ jobsLeft' = 0

\* The decrement and the read are one step of the owner of jobsLeftMutex,
\* and the value read is the value the decrement left.
C27_DecrementAndReadTogether ==
    \A t \in Threads :
        /\ (pc[t] = "fin_decrement" /\ Steps(t)) =>
               /\ jobsLeftMutex = t
               /\ jobsLeftMutex' = NoThread
               /\ jobsLeft' = jobsLeft - FinCount(t)
               /\ remainingJobs'[t] = jobsLeft'
        /\ (pc[t] = "fin_notify" /\ ~Steps(t)) =>
               remainingJobs'[t] = remainingJobs[t]

\* Each transition of jobsLeft to zero is made by exactly one finalizeJobs
\* call, which observes zero; a call observes zero only if it made such a
\* transition.
C27_OneObserverPerZero ==
    /\ ReachesZero =>
           Cardinality({t \in Threads : /\ pc[t] = "fin_decrement"
                                        /\ Observed(t, 0)'}) = 1
    /\ \A t \in Threads :
           (~Observed(t, 0) /\ Observed(t, 0)') =>
               pc[t] = "fin_decrement" /\ ReachesZero

\* The call that observed zero wakes every thread suspended on _waitVar; a
\* call that observed a positive value leaves _waitVar alone.
C27_NotifiesIffZero ==
    \A t \in Threads :
        (pc[t] = "fin_notify" /\ Steps(t)) =>
            /\ remainingJobs[t] = 0 => _waitVar' = {}
            /\ remainingJobs[t] > 0 => _waitVar' = _waitVar

\* C27: the decrement of jobsLeft and the read of the resulting value are
\* in one critical section on jobsLeftMutex, so for every transition of
\* jobsLeft from positive to zero exactly one finalizeJobs call (the one
\* that made it) observes zero and issues notify_all on _waitVar, and a
\* call whose decrement leaves jobsLeft positive issues no notification.
C27_ZeroSeenByItsMaker ==
    [][/\ C27_DecrementAndReadTogether
       /\ C27_OneObserverPerZero
       /\ C27_NotifiesIffZero]_vars

\* Two finalizeJobs calls are past their critical sections at once, one
\* having read a positive value and the other zero, with a thread
\* suspended in waitAll.
C27_Witness ==
    \E t, u \in Threads :
        /\ Observed(t, 1)
        /\ Observed(u, 0)
        /\ _waitVar # {}

\* ------------------------------------------------------------------ C28
\* The positions at which a thread reads or writes bailout: the tests of
\* lines 92, 97 and 100 in nextJob, the test and the write of lines 134
\* and 138 in joinAll.
BailoutAccess == {"nj_check", "nj_recheck", "ja_check"}

\* Every thread about to read or write bailout owns queueMutex.
C28_AccessUnderQueueMutex ==
    \A t \in Threads : pc[t] \in BailoutAccess => queueMutex = t

\* bailout never goes back to false, and it changes only in a step of a
\* joinAll call that owns queueMutex.
C28_SetOnceUnderLock ==
    /\ bailout => bailout'
    /\ bailout' # bailout =>
           \E c \in Clients :
               /\ pc[c] = "ja_check"
               /\ Steps(c)
               /\ queueMutex = c

\* C28: the shutdown flag bailout is write-once: it starts false, once
\* true it never becomes false again, and every read and write of it is
\* made while holding queueMutex.
C28_BailoutWriteOnce ==
    /\ ~bailout
    /\ [][C28_SetOnceUnderLock]_vars
    /\ []C28_AccessUnderQueueMutex

\* A second joinAll call tests the flag, already true, under queueMutex
\* while a worker has not yet seen it.
C28_Witness ==
    /\ bailout
    /\ \E c \in Clients : pc[c] = "ja_check" /\ queueMutex = c
    /\ \E w \in Range(threads) : pc[w] = "nj_wait"

\* ------------------------------------------------------------------ C29
\* The jobs handed to the dispatcher: those that enqueue has inserted into
\* _queue.
Submitted ==
    {j \in 1..numEnq :
        \A c \in Clients :
            job[c] = j => pc[c] \notin {"enq_lockJobsLeft", "enq_increment",
                                        "enq_lockQueue", "enq_emplace"}}

\* The jobs popped by a worker whose execution has not ended.
DequeuedNotFinished == {j \in Jobs : deqCount[j] > 0 /\ execCount[j] = 0}

\* No submitted job has left the dispatcher: none was executed, none was
\* cancelled.
NoneFinished == Total(execCount) = 0 /\ Total(cancelCount) = 0

\* Every job popped and not finished is in the hands of one worker of the
\* pool, and a worker holds one job at a time.
C29_OnePerWorker ==
    /\ Cardinality(DequeuedNotFinished) <= Len(threads)
    /\ \A j \in DequeuedNotFinished :
           Cardinality({w \in Range(threads) :
                            job[w] = j /\ pc[w] = "nj_job"}) = 1

\* A swap made when no job has finished takes every submitted job but the
\* ones workers have popped; the call returns that number.
C29_SwapTakesTheRest ==
    \A c \in Clients :
        /\ (pc[c] = "cp_swap" /\ Steps(c) /\ NoneFinished) =>
               /\ Len(oldQueue'[c]) =
                      Cardinality(Submitted) - Cardinality(DequeuedNotFinished)
               /\ Len(oldQueue'[c]) >= Cardinality(Submitted) - Len(threads)
               /\ Len(oldQueue'[c]) <= Cardinality(Submitted)
        /\ (pc[c] \in CpAfterSwap /\ pc'[c] \in CpAfterSwap) =>
               oldQueue'[c] = oldQueue[c]
        /\ (pc[c] = "cp_return" /\ Steps(c)) =>
               retSum' = retSum + Len(oldQueue[c])

\* C29: at any instant at most workerCount jobs are dequeued but not
\* finished, one per worker; hence if N jobs were submitted and no job has
\* finished before the swap of cancelPending, the count it returns is
\* between N - workerCount and N.
C29_CancelCountBounds ==
    /\ []C29_OnePerWorker
    /\ [][C29_SwapTakesTheRest]_vars

\* With a pool of one worker and two jobs submitted, the worker had popped
\* one job and not finished it when cancelPending swapped: the count is 1.
C29_Witness ==
    \E c \in Clients :
        /\ pc[c] = "cp_size"
        /\ Len(threads) = 1
        /\ Cardinality(Submitted) = 2
        /\ Total(execCount) = 0
        /\ Total(cancelCount) = 1
        /\ Cardinality(heldAtSwap[c]) = 1
        /\ Len(oldQueue[c]) = 1

\* ------------------------------------------------------------------ C30
\* Mutant of CaughtInNextJob: nextJob catches what job() throws and goes
\* on to finalizeJobs(1).
CaughtInNextJobAlways == TRUE

\* job(); at line 108 is not inside a try block.
CaughtInNextJob == FALSE

\* job() throws.  Nothing in nextJob catches: the exception leaves the
\* thread function and std::terminate ends the program, so finalizeJobs(1)
\* at line 109 is not reached and no thread takes another step.
NjJobFaults(w) ==
    /\ At(w, "nj_job")
    /\ UNCHANGED <<emptyJobs, producer>>
    /\ IF CaughtInNextJob
       THEN /\ Goto(w, "fin_lock")
            /\ UNCHANGED aborted
       ELSE /\ aborted' = TRUE
            /\ UNCHANGED pc
    /\ UNCHANGED <<shared, job, oldQueue, remainingJobs, joinIdx,
                   assertFailed, hist>>

\* The full program, with jobs that may fault.
NextJobFaults ==
    \/ Next
    \/ \E w \in Workers : NjJobFaults(w)

SpecJobFaults == Init /\ [][NextJobFaults]_vars

\* The jobs whose execution has faulted.
Faulted ==
    {j \in Jobs : aborted /\ \E w \in Workers :
                                 /\ job[w] = j
                                 /\ pc[w] = "nj_job"
                                 /\ execCount[j] = 0}

\* The fault changes neither the counter, nor the queue, nor the wait
\* sets, and after it no thread takes a step: no decrement, no further
\* job, no wake-up.
C30_FaultStopsEverything ==
    /\ (~aborted /\ aborted') =>
           /\ UNCHANGED <<shared, locals, hist>>
           /\ Faulted' # {}
    /\ ~aborted

\* A worker is in finalizeJobs only for a job whose execution has ended
\* normally, and once a job has faulted it stays counted in jobsLeft.
C30_FaultedJobStaysCounted ==
    /\ \A w \in Workers :
           pc[w] \in {"fin_lock", "fin_decrement", "fin_notify"} =>
               execCount[job[w]] = 1
    /\ aborted =>
           /\ Faulted # {}
           /\ jobsLeft >= Cardinality(Faulted)
           /\ jobsLeft > 0

\* C30: the dispatcher does not contain a failure inside a job: when the
\* execution of a job faults, the worker that ran it makes no decrement
\* of jobsLeft for that job and runs no further job, so jobsLeft never
\* returns to zero on account of that job, and nothing is reported to a
\* producer through the counter or the queue.
C30_FaultNotContained ==
    /\ [][C30_FaultStopsEverything]_vars
    /\ []C30_FaultedJobStaysCounted

\* A job has faulted while a waitAll call is suspended: the call stays
\* suspended with jobsLeft positive.
C30_Witness ==
    /\ aborted
    /\ Faulted # {}
    /\ jobsLeft > 0
    /\ \E c \in Clients : pc[c] = "wa_wait" /\ c \in _waitVar

\* ------------------------------------------------------------------ C31
\* The threads that have entered finalizeJobs and not yet decremented.
BeforeDecrement == {t \in Threads : pc[t] \in {"fin_lock", "fin_decrement"}}

\* The sum of the arguments of the finalizeJobs calls of the threads in S.
RECURSIVE PendingCount(_)
PendingCount(S) ==
    IF S = {} THEN 0
    ELSE LET t == CHOOSE x \in S : TRUE
         IN  FinCount(t) + PendingCount(S \ {t})

\* assert(count > 0) holds at every call, and jobsLeft covers the
\* decrements of all the calls that are under way together.
C31_CountsCovered ==
    /\ ~assertFailed
    /\ jobsLeft >= 0
    /\ \A t \in BeforeDecrement : FinCount(t) > 0
    /\ jobsLeft >= PendingCount(BeforeDecrement)

\* assert(jobsLeft >= count) holds when the decrement is made.
C31_DecrementFits ==
    \A t \in Threads :
        pc[t] = "fin_decrement" =>
            /\ jobsLeftMutex = t
            /\ jobsLeft >= FinCount(t)
            /\ (Steps(t) => jobsLeft' = jobsLeft - FinCount(t) /\ jobsLeft' >= 0)

\* C31: both assertions of finalizeJobs hold at every call in every
\* interleaving: count > 0, and jobsLeft >= count when the decrement is
\* made, so the unsigned counter jobsLeft never underflows, also with
\* concurrent cancelPending calls, worker completions and enqueue calls
\* in progress.
C31_AssertionsHold ==
    /\ []C31_CountsCovered
    /\ [][C31_DecrementFits]_vars

\* A cancelPending call is about to decrement for the job it removed
\* while a worker is about to decrement for the job it ran.
C31_Witness ==
    \E c \in Clients, w \in Workers :
        /\ pc[c] = "fin_decrement"
        /\ Len(oldQueue[c]) = 1
        /\ pc[w] = "fin_lock"
        /\ jobsLeft = 2

\* ------------------------------------------------------------------ C32
\* The jobs swapped out by cancelPending calls that have not decremented.
RECURSIVE SwappedOut(_)
SwappedOut(S) ==
    IF S = {} THEN 0
    ELSE LET c == CHOOSE x \in S : TRUE
         IN  (IF CancelHalfDone(c) THEN Len(oldQueue[c]) ELSE 0)
             + SwappedOut(S \ {c})

\* The jobs counted in jobsLeft, by where they are.
Accounted ==
    Len(_queue)
    + Cardinality({w \in Workers : WorkerBusy(w)})
    + SwappedOut(Clients)
    + Cardinality({c \in Clients : EnqueueHalfDone(c)})

\* C32: in every reachable state jobsLeft equals the jobs in _queue, plus
\* the jobs popped by a worker whose decrement has not happened, plus the
\* jobs swapped out by a cancelPending whose decrement has not happened,
\* plus the enqueue calls that have incremented the counter and not yet
\* inserted their job.
C32_Accounting == jobsLeft = Accounted

\* One job is in the hands of a worker and another is counted but not yet
\* inserted; _queue is empty and jobsLeft is 2.
C32_Witness ==
    /\ _queue = <<>>
    /\ jobsLeft = 2
    /\ \E w \in Workers : pc[w] = "nj_job"
    /\ \E c \in Clients : EnqueueHalfDone(c)

\* ------------------------------------------------------------------ C33
\* The positions inside a critical section on queueMutex, inside one on
\* jobsLeftMutex, and those at which a thread is acquiring a mutex.
InQueueSection == {"enq_emplace", "cp_swap", "nj_check", "nj_recheck",
                   "ja_check"}
InJobsLeftSection == {"enq_increment", "fin_decrement", "wa_check",
                      "wa_recheck"}
Acquiring == {"enq_lockJobsLeft", "enq_lockQueue", "cp_lock", "nj_lock",
              "nj_wait", "fin_lock", "wa_lock", "wa_wait", "ja_lock"}

\* The mutexes that thread t owns.
Held(t) ==
    (IF queueMutex = t THEN {"queueMutex"} ELSE {})
    \cup (IF jobsLeftMutex = t THEN {"jobsLeftMutex"} ELSE {})

\* A thread owns at most one mutex, owns it exactly inside the matching
\* critical section, and owns none while it is acquiring one: no thread
\* waits for one mutex with the other in its hands.
C33_OneMutexAtATime ==
    \A t \in Threads :
        /\ Cardinality(Held(t)) <= 1
        /\ queueMutex = t <=> pc[t] \in InQueueSection
        /\ jobsLeftMutex = t <=> pc[t] \in InJobsLeftSection
        /\ pc[t] \in Acquiring => Held(t) = {}

\* The owner of a mutex releases it in its next step without acquiring
\* the other one.
C33_ReleasedInOneStep ==
    \A t \in Threads :
        /\ (queueMutex = t /\ Steps(t)) =>
               queueMutex' = NoThread /\ jobsLeftMutex' = jobsLeftMutex
        /\ (jobsLeftMutex = t /\ Steps(t)) =>
               jobsLeftMutex' = NoThread /\ queueMutex' = queueMutex

\* C33: no thread holds queueMutex and jobsLeftMutex at the same time in
\* any operation (enqueue, cancelPending, waitAll, nextJob, finalizeJobs,
\* joinAll), so no reachable state is a deadlock caused by the order in
\* which the two mutexes are taken.
C33_NoNestedLocks ==
    /\ []C33_OneMutexAtATime
    /\ [][C33_ReleasedInOneStep]_vars

\* Both mutexes are owned, by two threads, while a third thread is
\* acquiring one of them.
C33_Witness ==
    /\ queueMutex # NoThread
    /\ jobsLeftMutex # NoThread
    /\ queueMutex # jobsLeftMutex
    /\ \E t \in Threads : pc[t] \in {"fin_lock", "nj_lock"}

\* ------------------------------------------------------------------ C34
\* The cancelPending calls that have swapped and not yet returned.
Cancelling == {c \in Clients : pc[c] \in CpAfterSwap}

\* The jobs taken out of _queue by a swap, never handed to a worker.
RemovedUnexecuted == {j \in Jobs : cancelCount[j] > 0}

\* The jobs whose count has been taken out of jobsLeft: executed jobs whose
\* worker has decremented, removed jobs whose cancelPending has
\* decremented.
Decremented ==
    {j \in Jobs :
        \/ /\ execCount[j] > 0
           /\ \A w \in Workers :
                  job[w] = j => pc[w] \notin {"nj_job", "fin_lock",
                                              "fin_decrement"}
        \/ /\ cancelCount[j] > 0
           /\ \A c \in Clients :
                  j \in Range(oldQueue[c]) =>
                      pc[c] \notin {"cp_size", "fin_lock", "fin_decrement"}}

\* The sizes of the oldQueue of the calls in S.
RECURSIVE SizeSum(_)
SizeSum(S) ==
    IF S = {} THEN 0
    ELSE LET c == CHOOSE x \in S : TRUE
         IN  Len(oldQueue[c]) + SizeSum(S \ {c})

\* Concurrent calls hold disjoint sets of jobs, each job once, and none of
\* them was or will be executed.
C34_DisjointRemovals ==
    /\ \A c, d \in Clients :
           c # d => Range(oldQueue[c]) \cap Range(oldQueue[d]) = {}
    /\ \A c \in Clients :
           Cardinality(Range(oldQueue[c])) = Len(oldQueue[c])
    /\ \A j \in Jobs :
           /\ cancelCount[j] <= 1
           /\ cancelCount[j] = 1 => deqCount[j] = 0 /\ execCount[j] = 0
           /\ j \notin Range(_queue) \/ cancelCount[j] = 0

\* The values returned so far, with the sizes the calls under way will
\* return, add up to the number of jobs removed without execution.
C34_ReturnsAddUp ==
    /\ retSum + SizeSum(Cancelling) = Cardinality(RemovedUnexecuted)
    /\ Cancelling = {} => retSum = Cardinality(RemovedUnexecuted)

\* Every counted job is decremented for at most once: jobsLeft is the
\* number of counted jobs less the number of jobs decremented for.
C34_OneDecrementPerJob ==
    jobsLeft = Cardinality(Incremented) - Cardinality(Decremented)

\* C34: when several cancelPending calls run concurrently, with each other
\* and with workers and producers, the sets of jobs they remove are
\* pairwise disjoint, the sum of their return values equals the number of
\* jobs removed from _queue without execution, and no job is decremented
\* for twice.
C34_ConcurrentCancels ==
    /\ C34_DisjointRemovals
    /\ C34_ReturnsAddUp
    /\ C34_OneDecrementPerJob

\* Two cancelPending calls are past their swaps at once, each with one
\* job.
C34_Witness ==
    \E c, d \in Clients :
        /\ c # d
        /\ pc[c] \in CpAfterSwap /\ Len(oldQueue[c]) = 1
        /\ pc[d] \in CpAfterSwap /\ Len(oldQueue[d]) = 1

\* ------------------------------------------------------------------ C35
\* The positions of a thread inside waitAll.
WaPositions == {"wa_lock", "wa_check", "wa_wait", "wa_recheck", "wa_return"}

\* Thread c takes a step of a waitAll call: the call itself, a step inside
\* it, or the return.
WaitAllStep(c) ==
    /\ Steps(c)
    /\ pc[c] \in WaPositions \/ pc'[c] = "wa_lock"

\* No step of a waitAll call changes _queue, jobsLeft or bailout, none
\* removes a worker from the wait set of jobAvailableVar, and none
\* touches queueMutex or the pool.
C35_WaitAllFrame ==
    \A c \in Clients :
        WaitAllStep(c) =>
            /\ UNCHANGED <<_queue, jobsLeft, bailout, jobAvailableVar>>
            /\ UNCHANGED <<queueMutex, threads, joinable>>
            /\ UNCHANGED <<numEnq, deqCount, execCount, cancelCount, retSum>>

\* C35: waitAll is a pure observer: a call of waitAll, whether it returns
\* at once or after blocking, leaves _queue, jobsLeft and bailout
\* unchanged and wakes no worker.
C35_WaitAllObservesOnly == [][C35_WaitAllFrame]_vars

\* A waitAll call that had blocked is about to return while a worker is
\* suspended on jobAvailableVar; another call is about to return without
\* having blocked.
C35_Witness ==
    \E c, d \in Clients :
        /\ pc[c] = "wa_return" /\ waBlocked[c]
        /\ pc[d] = "wa_return" /\ ~waBlocked[d]
        /\ jobAvailableVar # {}

\* ------------------------------------------------------------------ C36
\* The state of the single-lock abstract dispatcher, as a function of the
\* state of the implementation.  The abstract counter is the number of
\* jobs queued or with a worker; it is not read from jobsLeft.
absQueue == _queue

absCounter == Len(_queue) + Cardinality({w \in Workers : WorkerBusy(w)})

absSubmitted == Submitted

absBailout == bailout

\* The job a worker holds from the pop to its decrement.
absJob == [w \in Workers |-> IF WorkerBusy(w) THEN job[w] ELSE NoJob]

\* What a thread is doing, as far as its observable events go: a worker
\* is running a job, finishing it (executed, not decremented), done
\* (returned from nextJob) or idle; a client has cancelled (swapped, not
\* returned), has waited (seen zero, not returned) or is idle.
absPhase ==
    [t \in Threads |->
        IF t \in Workers
        THEN CASE pc[t] = "nj_job" -> "running"
               [] pc[t] \in {"fin_lock", "fin_decrement"} -> "finishing"
               [] pc[t] = "nj_done" -> "done"
               [] OTHER -> "idle"
        ELSE CASE pc[t] \in CpAfterSwap -> "cancelled"
               [] pc[t] = "wa_return" -> "waited"
               [] OTHER -> "idle"]

\* The value a cancelPending call is going to return.
absResult ==
    [c \in Clients |-> IF pc[c] \in CpAfterSwap THEN Len(oldQueue[c]) ELSE 0]

absVars == <<absQueue, absCounter, absSubmitted, absBailout, absJob,
             absPhase, absResult>>

\* The abstract dispatcher.  Each operation acts on counter and queue in
\* one atomic step.
C36_AbsInit ==
    /\ absQueue = <<>>
    /\ absCounter = 0
    /\ absSubmitted = {}
    /\ ~absBailout
    /\ absJob = [w \in Workers |-> NoJob]
    /\ absPhase = [t \in Threads |-> "idle"]
    /\ absResult = [c \in Clients |-> 0]

\* submit: the job is counted and queued at once.
C36_AbsSubmit ==
    \E j \in Jobs \ absSubmitted :
        /\ absSubmitted' = absSubmitted \cup {j}
        /\ absQueue' = Append(absQueue, j)
        /\ absCounter' = absCounter + 1
        /\ UNCHANGED <<absBailout, absJob, absPhase, absResult>>

\* Event: a worker starts the job at the head of the queue.
C36_AbsStart ==
    \E w \in Workers :
        /\ absPhase[w] = "idle"
        /\ ~absBailout
        /\ absQueue # <<>>
        /\ absJob' = [absJob EXCEPT ![w] = Head(absQueue)]
        /\ absQueue' = Tail(absQueue)
        /\ absPhase' = [absPhase EXCEPT ![w] = "running"]
        /\ UNCHANGED <<absCounter, absSubmitted, absBailout, absResult>>

\* Event: the job of a worker completes.
C36_AbsComplete ==
    \E w \in Workers :
        /\ absPhase[w] = "running"
        /\ absPhase' = [absPhase EXCEPT ![w] = "finishing"]
        /\ UNCHANGED <<absQueue, absCounter, absSubmitted, absBailout,
                       absJob, absResult>>

\* The worker takes its completed job out of the counter.
C36_AbsDecrement ==
    \E w \in Workers :
        /\ absPhase[w] = "finishing"
        /\ absCounter > 0
        /\ absCounter' = absCounter - 1
        /\ absJob' = [absJob EXCEPT ![w] = NoJob]
        /\ absPhase' = [absPhase EXCEPT ![w] = "idle"]
        /\ UNCHANGED <<absQueue, absSubmitted, absBailout, absResult>>

\* cancel: the removal of the queued jobs and the decrement are one step.
C36_AbsCancel ==
    \E c \in Clients :
        /\ absPhase[c] = "idle"
        /\ absResult' = [absResult EXCEPT ![c] = Len(absQueue)]
        /\ absQueue' = <<>>
        /\ absCounter' = absCounter - Len(absQueue)
        /\ absPhase' = [absPhase EXCEPT ![c] = "cancelled"]
        /\ UNCHANGED <<absSubmitted, absBailout, absJob>>

\* Event: cancel returns the number of jobs it removed.
C36_AbsCancelReturn ==
    \E c \in Clients :
        /\ absPhase[c] = "cancelled"
        /\ absResult' = [absResult EXCEPT ![c] = 0]
        /\ absPhase' = [absPhase EXCEPT ![c] = "idle"]
        /\ UNCHANGED <<absQueue, absCounter, absSubmitted, absBailout, absJob>>

\* wait-all passes only when the counter is zero.
C36_AbsWaitObserve ==
    \E c \in Clients :
        /\ absPhase[c] = "idle"
        /\ absCounter = 0
        /\ absPhase' = [absPhase EXCEPT ![c] = "waited"]
        /\ UNCHANGED <<absQueue, absCounter, absSubmitted, absBailout,
                       absJob, absResult>>

\* Event: wait-all returns.
C36_AbsWaitReturn ==
    \E c \in Clients :
        /\ absPhase[c] = "waited"
        /\ absPhase' = [absPhase EXCEPT ![c] = "idle"]
        /\ UNCHANGED <<absQueue, absCounter, absSubmitted, absBailout,
                       absJob, absResult>>

\* Shutdown is requested; an idle worker that sees it leaves.
C36_AbsShutdown ==
    /\ ~absBailout
    /\ absBailout' = TRUE
    /\ UNCHANGED <<absQueue, absCounter, absSubmitted, absJob, absPhase,
                   absResult>>

C36_AbsExit ==
    \E w \in Workers :
        /\ absPhase[w] = "idle"
        /\ absBailout
        /\ absPhase' = [absPhase EXCEPT ![w] = "done"]
        /\ UNCHANGED <<absQueue, absCounter, absSubmitted, absBailout,
                       absJob, absResult>>

C36_AbsNext ==
    \/ C36_AbsSubmit \/ C36_AbsStart \/ C36_AbsComplete \/ C36_AbsDecrement
    \/ C36_AbsCancel \/ C36_AbsCancelReturn
    \/ C36_AbsWaitObserve \/ C36_AbsWaitReturn
    \/ C36_AbsShutdown \/ C36_AbsExit

\* The observable events of the implementation are the abstract events:
\* a pop is a start of that job, the return of job() its completion, the
\* return of cancelPending carries the abstract result, the return of
\* waitAll follows an observation of zero.
C36_SameEvents ==
    /\ \A w \in Workers :
           /\ (pc[w] # "nj_job" /\ pc'[w] = "nj_job") =>
                  C36_AbsStart /\ absJob'[w] = job'[w]
           /\ (pc[w] = "nj_job" /\ Steps(w)) =>
                  C36_AbsComplete /\ execCount'[job[w]] = execCount[job[w]] + 1
    /\ \A c \in Clients :
           /\ (pc[c] = "cp_return" /\ Steps(c)) =>
                  C36_AbsCancelReturn /\ retSum' = retSum + absResult[c]
           /\ (pc[c] = "wa_return" /\ Steps(c)) => C36_AbsWaitReturn
           /\ (pc[c] # "wa_return" /\ pc'[c] = "wa_return") =>
                  C36_AbsWaitObserve

\* C36: the implementation with two locks (the counter under
\* jobsLeftMutex, the queue under queueMutex, updated in separate critical
\* sections) refines a single-lock abstract dispatcher in which submit
\* updates counter and queue in one atomic step and removal and decrement
\* are one atomic step: every sequence of observable events (job starts,
\* job completions, return values of cancelPending, returns of waitAll) of
\* the implementation is a sequence of the abstract dispatcher.
C36_RefinesSingleLock ==
    /\ C36_AbsInit
    /\ [][C36_AbsNext]_absVars
    /\ [][C36_SameEvents]_vars

\* The implementation counter is ahead of the abstract one (a job is
\* counted in jobsLeft and is neither queued nor with a worker) after a
\* job has completed and while a waitAll call that saw zero is returning.
C36_Witness ==
    /\ jobsLeft > absCounter
    /\ Total(execCount) >= 1
    /\ \E c \in Clients : pc[c] = "wa_return"

====
